---- MODULE Spec2Model ----
(***************************************************************************)
(* Blockchain state engine (src/src/CryptoNoteCore/Blockchain.cpp): the    *)
(* key-value indices b/ B/ t/ k/ o/ m/ p/ T/ g/, the cached height, the    *)
(* alternative-chain map, the memory pool and the message queue, driven by *)
(* init and addNewBlock.                                                   *)
(*                                                                         *)
(* Hashes are small naturals; 0 is NULL_HASH.  A block hash names a block  *)
(* of the table Block, a transaction hash a transaction of the table Tx.   *)
(* Collaborators whose code is outside the sources (Currency, Checkpoints, *)
(* tx_memory_pool, the crypto primitives, Platform::DB) are modelled by    *)
(* their contract; what they answer for a block or transaction is a field  *)
(* of that block or transaction.                                           *)
(***************************************************************************)
EXTENDS Integers, Sequences, FiniteSets, TLC

VARIABLES
  db_b,        \* b/<height>      -> block hash
  db_B,        \* B/<hash>/b      -> BlockEntry
  db_t,        \* t/<tx hash>     -> TransactionIndex [block, transaction]
  db_k,        \* k/<key image>   -> height
  db_o,        \* o/<amount>      -> sequence of [block, transaction, out]
  db_m,        \* m/<amount>      -> sequence of [block, transaction, out, isUsed]
  db_p,        \* p/<payment id>  -> sequence of tx hashes
  db_T,        \* T/<timestamp>   -> sequence of <<height, hash>>
  db_g,        \* g/<height>      -> generated transactions count
  db_version,  \* $version         -> format of the store, "" when the key is absent
  m_height,    \* cached chain height (atomic)
  m_synchronized,  \* on_synchronized has been called
  m_lastGeneratedTxNumber,
  m_alternative_chains,  \* block hash -> BlockEntry
  m_points,    \* Checkpoints: height -> block hash
  pool,        \* tx_memory_pool: set of tx hashes
  queue,       \* the subscribed message queue
  initialized, \* init() has run
  thrown,      \* an exception (or a crash) left addNewBlock; the object is not used again
  feed,        \* the blocks the peers offer in this run
  last,        \* the last addNewBlock call: argument, result, verification context
  poolLock,    \* the thread that holds the lock of m_tx_pool, 0 when it is free
  m_blockchain_lock,  \* recursive: [owner, count]
  thread,      \* thread -> the statement the thread is about to execute
  observed,    \* what the observer has read in its blockchainUpdated callbacks
  m_state,     \* Miner: MiningState (atomic)
  m_block,     \* Miner: the block mine returns
  m_miningStopped,  \* Miner: the event runWorkers sets when the workers are joined
  m_workers,   \* Miner: worker -> its position, its blockTemplate, its block
  mineCall,    \* the caller of Miner::mine: position, parameters, result
  stopCall,    \* the caller of Miner::stop: position
  found,       \* the workers that won and lost the compare-exchange, and what was written
  m_template,  \* miner: the block template
  m_diffic,    \* miner: the difficulty of the template
  m_template_no,  \* miner: the version of the template (atomic)
  workerLocal, \* miner::worker_thread: thread -> its position, b, local_diff, local_template_ver
  installed,   \* template version -> what set_block_template installed with it
  m_blockchain,  \* upgrade detector: the blocks of the chain it watches
  m_votingCompleteHeight,  \* upgrade detector: UNDEF_HEIGHT until the vote is complete
  m_tip_height,  \* upgrade detector: the height of the tip it read last
  m_tip_b,     \* upgrade detector: the tip it read last
  upgradeInit  \* upgrade detector: what the last init returned

vars == << db_b, db_B, db_t, db_k, db_o, db_m, db_p, db_T, db_g, db_version, m_height,
           m_synchronized,
           m_lastGeneratedTxNumber, m_alternative_chains, m_points, pool, queue,
           initialized, thrown, feed, last, poolLock, m_blockchain_lock, thread,
           observed, m_state, m_block, m_miningStopped, m_workers, mineCall, stopCall,
           found, m_template, m_diffic, m_template_no, workerLocal, installed,
           m_blockchain, m_votingCompleteHeight, m_tip_height, m_tip_b, upgradeInit >>

\* the Miner object and its callers
miner == << m_state, m_block, m_miningStopped, m_workers, mineCall, stopCall, found >>

\* the miner of the core (CryptoNoteCore/Miner.cpp): the template and its workers
templates == << m_template, m_diffic, m_template_no, workerLocal, installed >>

\* the upgrade detector
detector == << m_blockchain, m_votingCompleteHeight, m_tip_height, m_tip_b, upgradeInit >>

\* the locks and the positions of the threads
locks == << poolLock, m_blockchain_lock, thread >>

----------------------------------------------------------------------------
(* Maps of the store: a function whose domain is the set of present keys.  *)

EmptyMap == [x \in {} |-> 0]
Has(f, key) == key \in DOMAIN f
Put(f, key, v) == [x \in (DOMAIN f) \cup {key} |-> IF x = key THEN v ELSE f[x]]
Del(f, key) == [x \in (DOMAIN f) \ {key} |-> f[x]]
Max(S) == CHOOSE x \in S : \A y \in S : y <= x
Min(S) == CHOOSE x \in S : \A y \in S : x <= y
SeqToSet(q) == { q[i] : i \in 1..Len(q) }

NULL_HASH == 0

----------------------------------------------------------------------------
(* Transactions.  kis: the key images of the KeyInputs in input order;     *)
(* msin: the MultisignatureInputs; outs: the outputs; pid: the payment id  *)
(* of extra (0: none); fee: input amount minus output amount; sigOk: what  *)
(* the ring-signature, key-image-domain and unlock-time checks answer.     *)

KeyOut(a)  == [amount |-> a, kind |-> "key"]
MsigOut(a) == [amount |-> a, kind |-> "msig"]

Tx ==
  [ h \in {11, 12, 13, 14, 15} |->
      CASE h = 11 -> [kis |-> <<1>>, msin |-> <<>>, outs |-> <<KeyOut(1)>>,
                      pid |-> 0, fee |-> 0, sigOk |-> TRUE]
        [] h = 12 -> [kis |-> <<1>>, msin |-> <<>>, outs |-> <<KeyOut(1)>>,
                      pid |-> 1, fee |-> 0, sigOk |-> TRUE]
        [] h = 13 -> [kis |-> <<2>>, msin |-> <<>>, outs |-> <<KeyOut(1), MsigOut(2)>>,
                      pid |-> 1, fee |-> 1, sigOk |-> TRUE]
        [] h = 14 -> [kis |-> <<>>, msin |-> <<[amount |-> 2, outputIndex |-> 0]>>,
                      outs |-> <<KeyOut(1)>>, pid |-> 0, fee |-> 0, sigOk |-> TRUE]
        [] h = 15 -> [kis |-> <<3>>, msin |-> <<>>, outs |-> <<KeyOut(1)>>,
                      pid |-> 0, fee |-> 0, sigOk |-> TRUE] ]

TxHashes == DOMAIN Tx

----------------------------------------------------------------------------
(* Currency parameters (CryptoNoteConfig, outside the sources).            *)

upgradeHeight(v) == IF v = 5 THEN 1 ELSE 0
\* the window is shorter, and of even size, before version 4
timestampCheckWindow(ver) == IF ver >= 4 THEN 3 ELSE 2
minedMoneyUnlockWindow == 2
minedMoneyUnlockWindow_v1 == 3
maxBlockCumulativeSize(height) == 3
BaseReward == 1
TxBlobSize == 1
\* the values an uninitialised cumulative_difficulty may hold
MaxGarbage == 4
\* blocks are offered while every o/ list is shorter than this
MaxOutputs == 6

\* Blockchain::getBlockMajorVersionForHeight
getBlockMajorVersionForHeight(height) ==
  IF height > upgradeHeight(5) THEN 5
  ELSE IF height > upgradeHeight(4) THEN 4
  ELSE IF height > upgradeHeight(3) THEN 3
  ELSE IF height > upgradeHeight(2) THEN 2
  ELSE 1

expectedUnlock(ver, height) ==
  height + (IF ver < 5 THEN minedMoneyUnlockWindow ELSE minedMoneyUnlockWindow_v1)

----------------------------------------------------------------------------
(* Blocks.  prev: previousBlockHash; hgt: blockIndex of the BaseInput of   *)
(* the coinbase (get_block_height); ver: majorVersion; ts: timestamp;      *)
(* txs: transactionHashes; mm: the coinbase extra carries a merge-mining   *)
(* tag; unlock, cbAmount: unlockTime and output amount of the coinbase;    *)
(* pow: what Currency::checkProofOfWork answers for the block; nextDiff:   *)
(* what Currency::nextDifficulty answers for a block that follows this one *)
(* (a function of the chain up to this block).                             *)

\* the fees of the transactions i.. of txs
RECURSIVE FeeSumFrom(_, _, _)
FeeSumFrom(T, txs, i) ==
  IF i > Len(txs) THEN 0
  ELSE (IF txs[i] \in DOMAIN T THEN T[txs[i]].fee ELSE 0) + FeeSumFrom(T, txs, i + 1)

FeeSum(txs) == FeeSumFrom(Tx, txs, 1)

\* previousBlockHash, blockIndex, timestamp and transactionHashes of the blocks
Header ==
  << <<NULL_HASH, 0, 0, <<>>>>,  <<1, 1, 1, <<11>>>>,      <<2, 2, 1, <<13>>>>,
     <<3, 3, 2, <<12>>>>,        <<1, 1, 1, <<>>>>,        <<5, 2, 2, <<11>>>>,
     <<6, 3, 3, <<>>>>,          <<1, 1, 1, <<11, 12>>>>,  <<99, 2, 2, <<>>>>,
     <<2, 2, 2, <<>>>>,          <<2, 2, 2, <<>>>>,        <<1, 1, 2, <<>>>>,
     <<12, 2, 3, <<>>>>,         <<2, 2, 2, <<13, 14, 12>>>>, <<2, 2, 2, <<>>>>,
     <<2, 3, 2, <<>>>>,          <<2, 2, 2, <<>>>>,        <<3, 3, 0, <<>>>>,
     <<3, 3, 3, <<14>>>>,        <<2, 2, 2, <<12>>>>,      <<1, 2, 2, <<>>>>,
     <<5, 2, 2, <<11, 13, 15>>>>, <<NULL_HASH, 0, 0, <<>>>>, <<3, 3, 3, <<14, 12>>>>,
     <<5, 2, 2, <<>>>>,          <<25, 3, 3, <<>>>> >>

\* a block a miner of the current rules builds on a header
Blk(h) ==
  LET versioned(ver) ==
        [ prev |-> h[1], hgt |-> h[2], ver |-> ver, ts |-> h[3], txs |-> h[4], mm |-> FALSE,
          unlock |-> expectedUnlock(ver, h[2]), cbAmount |-> BaseReward + FeeSum(h[4]),
          pow |-> TRUE, nextDiff |-> 1 ]
  IN versioned(getBlockMajorVersionForHeight(h[2]))

GenesisHash == 1

\* the genesis block of another network
ForeignGenesisHash == 23

\* the blocks: 2 raises the difficulty; 10 has an old version, 11 a
\* merge-mining tag, 12 leads to difficulty zero, 15 a wrong reward, 17 no
\* proof of work; 21 names a height that is not its parent's plus one; 22
\* is larger than the size limit; 24 spends a multisignature output and
\* then a key image that is spent; 25 and 26 carry no transactions
Block ==
  [ id \in 1..Len(Header) |->
      LET built(b) ==
            CASE id = 2  -> [b EXCEPT !.nextDiff = 2]
              [] id = 10 -> [b EXCEPT !.ver = 1]
              [] id = 11 -> [b EXCEPT !.mm = TRUE]
              [] id = 12 -> [b EXCEPT !.nextDiff = 0]
              [] id = 15 -> [b EXCEPT !.cbAmount = 2]
              [] id = 17 -> [b EXCEPT !.pow = FALSE]
              [] OTHER   -> b
      IN built(Blk(Header[id])) ]

BlockIds == DOMAIN Block

\* hash of the coinbase transaction of a block, and the coinbase as a transaction
minerTxHash(id) == 100 + id
baseTransaction(id) ==
  [kis |-> <<>>, msin |-> <<>>, outs |-> <<KeyOut(Block[id].cbAmount)>>, pid |-> 0,
   fee |-> 0, sigOk |-> TRUE]

\* the transaction a hash names
TxOf(h) == IF h \in TxHashes THEN Tx[h] ELSE baseTransaction(h - 100)

----------------------------------------------------------------------------
(* Checkpoints (Checkpoints.cpp, outside the sources).                     *)

is_in_checkpoint_zone(points, height) ==
  DOMAIN points /= {} /\ height <= Max(DOMAIN points)

\* check_block(height, h, is_a_checkpoint)
check_block(points, height, h) ==
  [ is_a_checkpoint |-> Has(points, height),
    ok |-> ~Has(points, height) \/ points[height] = h ]

\* load_checkpoints_from_dns: the records of heights that have no checkpoint
\* yet are added
load_checkpoints_from_dns(s, dns) ==
  [s EXCEPT !.points = [h \in (DOMAIN @) \cup (DOMAIN dns) |->
                          IF h \in DOMAIN @ THEN @[h] ELSE dns[h]]]

is_alternative_block_allowed(points, blockchain_height, block_height) ==
  IF block_height = 0 THEN FALSE
  ELSE LET below == { c \in DOMAIN points : c <= blockchain_height }
       IN below = {} \/ Max(below) < block_height

----------------------------------------------------------------------------
(* The state the operations work on, as one record; exc: an exception has  *)
(* been thrown and not caught (every later step of the call is skipped);   *)
(* commits counts the db_commit calls of the operation.                    *)

Cur ==
  [ b |-> db_b, B |-> db_B, t |-> db_t, k |-> db_k, o |-> db_o, m |-> db_m,
    p |-> db_p, T |-> db_T, g |-> db_g, height |-> m_height,
    lastGen |-> m_lastGeneratedTxNumber, alt |-> m_alternative_chains,
    points |-> m_points, pool |-> pool, queue |-> queue, exc |-> FALSE,
    synchronized |-> m_synchronized, commits |-> 0 ]

Throw(s) == [s EXCEPT !.exc = TRUE]

\* DB::Cursor rbegin(BLOCK_INDEX_PREFIX): the greatest height of b/
TipHeight(s) == Max(DOMAIN s.b)
ChainEmpty(s) == DOMAIN s.b = {}

\* Blockchain::getTailId
getTailId(s) == IF ChainEmpty(s) THEN NULL_HASH ELSE s.b[TipHeight(s)]

\* Blockchain::haveBlock, with the alternative-chain lookup dropped
haveBlockMainOnly(s, id) == Has(s.B, id)

\* Blockchain::haveBlock that looks in the alternative chains only
haveBlockAlternativeOnly(s, id) == Has(s.alt, id)

\* Blockchain::haveBlock
haveBlock(s, id) == Has(s.B, id) \/ Has(s.alt, id)

\* Blockchain::checkIfSpent(keyImage)
checkIfSpent(s, keyImage) == Has(s.k, keyImage)

\* Blockchain::sendMessage
sendMessage(s, msg) == [s EXCEPT !.queue = Append(@, msg)]

----------------------------------------------------------------------------
(* pushTransaction                                                         *)

\* the spent-key-image loop: put with no-overwrite; on a duplicate the keys
\* put for the earlier inputs are deleted again
RECURSIVE putKeyImages(_, _, _, _)
putKeyImages(k, kis, i, height) ==
  IF i > Len(kis) THEN [k |-> k, ok |-> TRUE]
  ELSE IF Has(k, kis[i])
       THEN [k |-> [x \in (DOMAIN k) \ { kis[j] : j \in 1..(i - 1) } |-> k[x]], ok |-> FALSE]
       ELSE putKeyImages(Put(k, kis[i], height), kis, i + 1, height)

\* the multisignature-input loop; indexing the vector past its end is
\* undefined: ub = "crash" ends the process, otherwise the write is lost
RECURSIVE markMultisignatureInputs(_, _, _, _)
markMultisignatureInputs(m, msin, i, ub) ==
  IF i > Len(msin) THEN [m |-> m, exc |-> FALSE]
  ELSE LET in == msin[i] IN
       IF Has(m, in.amount) /\ in.outputIndex < Len(m[in.amount])
       THEN markMultisignatureInputs(
              [m EXCEPT ![in.amount][in.outputIndex + 1].isUsed = TRUE], msin, i + 1, ub)
       ELSE IF ub = "crash" THEN [m |-> m, exc |-> TRUE]
       ELSE markMultisignatureInputs(
              IF Has(m, in.amount) THEN m ELSE Put(m, in.amount, <<>>), msin, i + 1, ub)

\* the output loop: append to o/<amount> or m/<amount>
RECURSIVE pushOutputs(_, _, _, _, _, _)
pushOutputs(o, m, outs, i, tidx, gidx) ==
  IF i > Len(outs) THEN [o |-> o, m |-> m, gidx |-> gidx]
  ELSE LET out == outs[i] IN
       IF out.kind = "key"
       THEN LET old == IF Has(o, out.amount) THEN o[out.amount] ELSE <<>>
                e == [block |-> tidx.block, transaction |-> tidx.transaction, out |-> i - 1]
            IN pushOutputs(Put(o, out.amount, Append(old, e)), m, outs, i + 1, tidx,
                           Append(gidx, Len(old)))
       ELSE LET old == IF Has(m, out.amount) THEN m[out.amount] ELSE <<>>
                e == [block |-> tidx.block, transaction |-> tidx.transaction, out |-> i - 1,
                      isUsed |-> FALSE]
            IN pushOutputs(o, Put(m, out.amount, Append(old, e)), outs, i + 1, tidx,
                           Append(gidx, 0))

\* checkMultisignatureInputsDiff: no two multisignature inputs name the same output
checkMultisignatureInputsDiff(tx) ==
  \A i, j \in 1..Len(tx.msin) : i /= j => tx.msin[i] /= tx.msin[j]

\* Blockchain::pushTransaction; block.transactions[tidx.transaction] is the
\* transaction; returns the state, the result and the block entry
pushTransaction(s, block, transactionHash, tidx, ub) ==
  LET fail(st) == [s |-> st, ok |-> FALSE, block |-> block]
      \* the outputs and the payment id
      outputs(tx, k, m) ==
        LET stored(po) ==
              [ s |-> [s EXCEPT !.t = Put(@, transactionHash, tidx), !.k = k,
                                !.o = po.o, !.m = po.m,
                                !.p = IF tx.pid = 0 THEN @
                                      ELSE Put(@, tx.pid,
                                               Append(IF Has(@, tx.pid) THEN @[tx.pid] ELSE <<>>,
                                                      transactionHash))],
                ok |-> TRUE,
                block |-> [block EXCEPT
                             !.transactions[tidx.transaction + 1].m_global_output_indexes =
                               po.gidx] ]
        IN stored(pushOutputs(s.o, m, tx.outs, 1, tidx, <<>>))
      \* the multisignature inputs
      multisignature(tx, k) ==
        LET marked(ms) ==
              IF ms.exc
              THEN fail(Throw([s EXCEPT !.t = Put(@, transactionHash, tidx), !.k = k,
                                        !.m = ms.m]))
              ELSE outputs(tx, k, ms.m)
        IN marked(markMultisignatureInputs(s.m, tx.msin, 1, ub))
      \* the key images
      keyImages(tx) ==
        LET spent(ki) == IF ~ki.ok THEN fail([s EXCEPT !.k = ki.k])
                         ELSE multisignature(tx, ki.k)
        IN spent(putKeyImages(s.k, tx.kis, 1, block.height))
      inputs(tx) == IF ~checkMultisignatureInputsDiff(tx) THEN fail(s) ELSE keyImages(tx)
  IN
  IF s.exc THEN fail(s)
  ELSE IF Has(s.t, transactionHash) THEN fail(s)
  ELSE inputs(TxOf(transactionHash))

----------------------------------------------------------------------------
(* popTransaction                                                          *)

\* the output loop, last output first: the entry is written only when the
\* list becomes empty (it is deleted); a shortened list is not put back
RECURSIVE popOutputs(_, _, _, _, _)
popOutputs(o, m, outs, outputIndex, tidx) ==
  IF outputIndex >= Len(outs) THEN [o |-> o, m |-> m]
  ELSE
    LET pos == Len(outs) - 1 - outputIndex
        out == outs[pos + 1]
    IN
    IF out.kind = "key"
    THEN IF ~Has(o, out.amount) \/ o[out.amount] = <<>>
         THEN popOutputs(o, m, outs, outputIndex + 1, tidx)
         ELSE LET back == o[out.amount][Len(o[out.amount])] IN
              IF back.block /= tidx.block \/ back.transaction /= tidx.transaction
                 \/ back.out /= pos
              THEN popOutputs(o, m, outs, outputIndex + 1, tidx)
              ELSE popOutputs(IF Len(o[out.amount]) = 1 THEN Del(o, out.amount) ELSE o,
                              m, outs, outputIndex + 1, tidx)
    ELSE IF ~Has(m, out.amount) \/ m[out.amount] = <<>>
         THEN popOutputs(o, m, outs, outputIndex + 1, tidx)
         ELSE LET back == m[out.amount][Len(m[out.amount])] IN
              IF back.isUsed \/ back.block /= tidx.block
                 \/ back.transaction /= tidx.transaction \/ back.out /= pos
              THEN popOutputs(o, m, outs, outputIndex + 1, tidx)
              ELSE popOutputs(o, IF Len(m[out.amount]) = 1 THEN Del(m, out.amount) ELSE m,
                              outs, outputIndex + 1, tidx)

\* the input loop: m_db.del(kikey, true) throws when the key is absent; the
\* cleared isUsed flag of a multisignature input is not written to the store
RECURSIVE popKeyImages(_, _, _)
popKeyImages(k, kis, i) ==
  IF i > Len(kis) THEN [k |-> k, exc |-> FALSE]
  ELSE IF Has(k, kis[i]) THEN popKeyImages(Del(k, kis[i]), kis, i + 1)
  ELSE [k |-> k, exc |-> TRUE]

\* Blockchain::popTransaction
popTransaction(s, transactionHash) ==
  LET undone(tx, po, ki) ==
        LET written(s1) ==
              IF ki.exc THEN Throw(s1)
              ELSE [s1 EXCEPT !.p = IF tx.pid = 0 THEN @ ELSE Del(@, tx.pid),
                              !.t = Del(@, transactionHash)]
        IN written([s EXCEPT !.o = po.o, !.m = po.m, !.k = ki.k])
      pop(tx) == undone(tx, popOutputs(s.o, s.m, tx.outs, 0, s.t[transactionHash]),
                        popKeyImages(s.k, tx.kis, 1))
  IN IF s.exc \/ ~Has(s.t, transactionHash) THEN s
     ELSE pop(TxOf(transactionHash))

\* Blockchain::popTransactions
RECURSIVE popTransactionsFrom(_, _, _)
popTransactionsFrom(s, block, i) ==
  IF i >= Len(block.transactions) - 1 THEN s
  ELSE popTransactionsFrom(
         popTransaction(s, Block[block.bl].txs[Len(block.transactions) - 1 - i]), block, i + 1)

popTransactions(s, block) ==
  popTransaction(popTransactionsFrom(s, block, 0), minerTxHash(block.bl))

----------------------------------------------------------------------------
(* The memory pool (tx_memory_pool, outside the sources): take_tx removes  *)
(* the transaction, add_tx with keptByBlock inserts it.                    *)

\* Blockchain::loadTransactions: the transactions taken before a miss are
\* added back
RECURSIVE take_tx(_, _, _)
take_tx(pl, txs, i) ==
  IF i > Len(txs) THEN [pool |-> pl, ok |-> TRUE]
  ELSE IF txs[i] \in pl THEN take_tx(pl \ {txs[i]}, txs, i + 1)
  ELSE [pool |-> pl, ok |-> FALSE]

loadTransactionsDrained(s, id) ==
  LET taken(r) == [s |-> [s EXCEPT !.pool = r.pool], ok |-> r.ok]
  IN taken(take_tx(s.pool, Block[id].txs, 1))

loadTransactions(s, id) ==
  LET taken(r) == [s |-> IF r.ok THEN [s EXCEPT !.pool = r.pool] ELSE s, ok |-> r.ok]
  IN taken(take_tx(s.pool, Block[id].txs, 1))

\* Blockchain::saveTransactions
saveTransactionsNone(s, txs) == s

saveTransactions(s, txs) == [s EXCEPT !.pool = @ \cup SeqToSet(txs)]

----------------------------------------------------------------------------
(* Block checks                                                            *)

\* Blockchain::checkBlockVersion
checkBlockVersion(b) == b.ver = getBlockMajorVersionForHeight(b.hgt)

\* Common::medianValue that takes the upper of the two middle values
medianValueUpper(v) ==
  IF v = <<>> THEN 0
  ELSE LET n == Len(v)
           sorted == CHOOSE q \in [1..n -> SeqToSet(v)] :
                       /\ \A i \in 1..(n - 1) : q[i] <= q[i + 1]
                       /\ \A x \in SeqToSet(v) :
                            Cardinality({ i \in 1..n : q[i] = x })
                              = Cardinality({ i \in 1..n : v[i] = x })
       IN sorted[(n \div 2) + 1]

\* Common::medianValue
medianValue(v) ==
  IF v = <<>> THEN 0
  ELSE LET n == Len(v)
           sorted == CHOOSE q \in [1..n -> SeqToSet(v)] :
                       /\ \A i \in 1..(n - 1) : q[i] <= q[i + 1]
                       /\ \A x \in SeqToSet(v) :
                            Cardinality({ i \in 1..n : q[i] = x })
                              = Cardinality({ i \in 1..n : v[i] = x })
       IN IF n % 2 = 1 THEN sorted[(n \div 2) + 1]
          ELSE (sorted[n \div 2] + sorted[(n \div 2) + 1]) \div 2


\* Blockchain::check_block_timestamp
check_block_timestamp(timestamps, b) ==
  IF Len(timestamps) < timestampCheckWindow(b.ver) THEN TRUE
  ELSE ~(b.ts < medianValue(timestamps))

\* the timestamps of the main-chain blocks at heights from..to
RECURSIVE mainTimestamps(_, _, _)
mainTimestamps(s, from, to) ==
  IF from > to THEN <<>>
  ELSE <<Block[s.b[from]].ts>> \o mainTimestamps(s, from + 1, to)

\* Blockchain::check_block_timestamp_main; the adjusted time of the node is
\* ahead of every timestamp of the tables, so the future-time limit passes
check_block_timestamp_main(s, b) ==
  LET window(w) ==
        mainTimestamps(s, IF s.height <= w THEN 0 ELSE s.height - w, s.height - 1)
  IN check_block_timestamp(window(timestampCheckWindow(b.ver)), b)

\* Blockchain::getDifficultyForNextBlock: Currency::nextDifficulty over the
\* timestamps and cumulative difficulties of the chain up to its tip
getDifficultyForNextBlockOne(s) == 1

getDifficultyForNextBlock(s) == IF ChainEmpty(s) THEN 1 ELSE Block[getTailId(s)].nextDiff

\* Blockchain::prevalidate_miner_transaction
prevalidate_miner_transaction(b, height) ==
  /\ b.hgt = height
  /\ b.unlock = expectedUnlock(b.ver, height)

\* Blockchain::validate_miner_transaction: [ok, emissionChange]
validate_miner_transaction(b, fee) ==
  [ ok |-> b.cbAmount = BaseReward + fee, emissionChange |-> BaseReward ]

\* Blockchain::validateInput (a MultisignatureInput)
validateInput(s, in) ==
  /\ Has(s.m, in.amount)
  /\ in.outputIndex < Len(s.m[in.amount])
  /\ ~s.m[in.amount][in.outputIndex + 1].isUsed
  /\ Has(s.b, s.m[in.amount][in.outputIndex + 1].block)

\* Blockchain::checkTransactionInputs(tx, tx_prefix_hash, pmax_used_block_height)
checkTransactionInputs(s, tx) ==
  LET checked(zone) ==
        /\ \A i \in 1..Len(tx.kis) : ~checkIfSpent(s, tx.kis[i])
        /\ zone \/ tx.kis = <<>> \/ tx.sigOk
        /\ zone \/ \A i \in 1..Len(tx.msin) : validateInput(s, tx.msin[i]) /\ tx.sigOk
  IN checked(is_in_checkpoint_zone(s.points, s.height))

\* Blockchain::checkCumulativeBlockSize
checkCumulativeBlockSize(cumulativeBlockSize, height) ==
  ~(cumulativeBlockSize > maxBlockCumulativeSize(height))

----------------------------------------------------------------------------
(* pushBlock                                                               *)

\* db_commit at the end of pushBlock(BlockEntry&, const Crypto::Hash&): on
\* every block once synchronized and outside the checkpoint zone, else on
\* every block whose height is a multiple of 1000 but the genesis block
committed(s, height) ==
  IF is_in_checkpoint_zone(s.points, s.height) \/ ~s.synchronized
  THEN (IF height /= 0 /\ height % 1000 = 0 THEN [s EXCEPT !.commits = @ + 1] ELSE s)
  ELSE [s EXCEPT !.commits = @ + 1]

\* Blockchain::pushBlock(BlockEntry&, const Crypto::Hash&): put with
\* no-overwrite throws on a key that is present
pushBlockEntry(s, block, blockHash) ==
  LET \* g/<height> and the cached height
      generated(s2, n) ==
        IF Has(s2.g, block.height) THEN Throw([s2 EXCEPT !.lastGen = n])
        ELSE [committed([s2 EXCEPT !.lastGen = n, !.g = Put(@, block.height, n)],
                        block.height)
                EXCEPT !.height = block.height + 1]
      \* b/<height> and T/<timestamp>, the latter only when the key is new
      indexed(s1, b) ==
        IF Has(s1.b, block.height) THEN Throw(s1)
        ELSE IF block.height > 0
        THEN generated([s1 EXCEPT !.b = Put(@, block.height, blockHash),
                                  !.T = IF Has(@, b.ts) THEN @
                                        ELSE Put(@, b.ts, << <<block.height, blockHash>> >>)],
                       s1.lastGen + Len(b.txs) + 1)
        ELSE [committed([s1 EXCEPT !.b = Put(@, block.height, blockHash),
                                   !.T = IF Has(@, b.ts) THEN @
                                         ELSE Put(@, b.ts, << <<block.height, blockHash>> >>)],
                        block.height)
                EXCEPT !.height = block.height + 1]
  IN
  IF s.exc THEN s
  ELSE IF Has(s.B, blockHash) THEN Throw(s)
  ELSE indexed([s EXCEPT !.B = Put(@, blockHash, block)], Block[block.bl])

\* a value-initialised block_verification_context
BvcInit ==
  [ m_added_to_main_chain |-> FALSE, m_verification_failed |-> FALSE,
    m_marked_as_orphaned |-> FALSE, m_already_exists |-> FALSE,
    m_switched_to_alt_chain |-> FALSE ]

\* a TransactionEntry of a BlockEntry
TransactionEntry(h) == [tx |-> h, m_global_output_indexes |-> <<>>]

\* the transaction loop of pushBlock: m is [s, block, ok]; the result of
\* pushTransaction is not looked at
RECURSIVE pushBlockTransactions(_, _, _, _)
pushBlockTransactions(m, transactions, i, ub) ==
  IF m.s.exc \/ i > Len(transactions) THEN [s |-> m.s, block |-> m.block, ok |-> TRUE]
  ELSE IF ~is_in_checkpoint_zone(m.s.points, m.s.height)
          /\ ~checkTransactionInputs(m.s, Tx[transactions[i]])
  THEN [s |-> popTransactions(m.s, m.block), block |-> m.block, ok |-> FALSE]
  ELSE pushBlockTransactions(
         pushTransaction(
           m.s, [m.block EXCEPT !.transactions = Append(@, TransactionEntry(transactions[i]))],
           Block[m.block.bl].txs[i], [block |-> m.s.height, transaction |-> i], ub),
         transactions, i + 1, ub)

\* a pushBlock that ends with m_verification_failed set, and one that ends
\* with bvc as it was
pushBlockFailed(st, bvc) ==
  [s |-> st, ok |-> FALSE, bvc |-> [bvc EXCEPT !.m_verification_failed = TRUE]]
pushBlockSilent(st, bvc) == [s |-> st, ok |-> FALSE, bvc |-> bvc]

\* pushBlock after the transaction loop: the cumulative size, the reward and
\* pushBlock(block, blockHash), its result not looked at.  l is what the loop
\* left, e the previous block entry.
pushBlockRewarded(l, id, transactions, bvc, b, e, currentDifficulty) ==
  LET cumulative_block_size == TxBlobSize + Len(transactions) * TxBlobSize
      stored(s1) ==
        [s |-> s1, ok |-> ~s1.exc,
         bvc |-> IF s1.exc THEN bvc ELSE [bvc EXCEPT !.m_added_to_main_chain = TRUE]]
      v == validate_miner_transaction(b, FeeSum(transactions))
      zone == is_in_checkpoint_zone(l.s.points, l.s.height)
  IN
  IF l.s.exc THEN pushBlockSilent(l.s, bvc)
  ELSE IF ~l.ok THEN pushBlockFailed(l.s, bvc)
  ELSE IF ~checkCumulativeBlockSize(cumulative_block_size, l.s.height)
  THEN pushBlockFailed(l.s, bvc)
  ELSE IF ~zone /\ ~v.ok THEN pushBlockFailed(popTransactions(l.s, l.block), bvc)
  ELSE stored(pushBlockEntry(
                l.s,
                [l.block EXCEPT
                   !.block_cumulative_size = cumulative_block_size,
                   !.cumulative_difficulty = currentDifficulty + e.cumulative_difficulty,
                   !.already_generated_coins =
                     e.already_generated_coins + (IF zone THEN 0 ELSE v.emissionChange)],
                id))

\* pushBlock from the b/ cursor on: s0 has m_height read from the cursor; the
\* previous block entry; the coinbase, then the transactions
pushBlockTransacted(s0, id, transactions, bvc, ub, b, currentDifficulty) ==
  pushBlockRewarded(
    pushBlockTransactions(
      pushTransaction(
        s0,
        [ bl |-> id, height |-> s0.height,
          transactions |-> <<TransactionEntry(minerTxHash(id))>>,
          block_cumulative_size |-> 0, cumulative_difficulty |-> 0,
          already_generated_coins |-> 0 ],
        minerTxHash(id), [block |-> s0.height, transaction |-> 0], ub),
      transactions, 1, ub),
    id, transactions, bvc, b,
    IF ChainEmpty(s0) THEN [cumulative_difficulty |-> 0, already_generated_coins |-> 0]
    ELSE s0.B[getTailId(s0)],
    currentDifficulty)

\* the checks of pushBlock that come before the transactions
pushBlockChecked(s, id, transactions, bvc, ub, b, zone, currentDifficulty) ==
  IF ~checkBlockVersion(b) THEN pushBlockFailed(s, bvc)
  ELSE IF b.ver >= 5 /\ b.mm THEN pushBlockSilent(s, bvc)
  ELSE IF b.prev /= getTailId(s) THEN pushBlockFailed(s, bvc)
  ELSE IF ~zone /\ ~check_block_timestamp_main(s, b) THEN pushBlockFailed(s, bvc)
  ELSE IF currentDifficulty = 0 THEN pushBlockSilent(s, bvc)
  ELSE IF zone /\ ~check_block(s.points, s.height, id).ok THEN pushBlockFailed(s, bvc)
  ELSE IF ~zone /\ ~b.pow THEN pushBlockFailed(s, bvc)
  ELSE IF ~zone /\ ~prevalidate_miner_transaction(b, s.height) THEN pushBlockFailed(s, bvc)
  ELSE pushBlockTransacted([s EXCEPT !.height = IF ChainEmpty(s) THEN 0 ELSE TipHeight(s) + 1],
                           id, transactions, bvc, ub, b, currentDifficulty)

\* Blockchain::pushBlock(blockData, transactions, blockHash, bvc): [s, ok, bvc]
pushBlockWithTransactions(s, id, transactions, bvc, ub) ==
  IF s.exc THEN pushBlockSilent(s, bvc)
  ELSE pushBlockChecked(s, id, transactions, bvc, ub, Block[id],
                        is_in_checkpoint_zone(s.points, s.height),
                        getDifficultyForNextBlock(s))

\* pushBlock once loadTransactions has answered; on a failure of the push the
\* transactions go back to the pool
pushBlockLoaded(ld, id, bvc, ub) ==
  LET pushed(r) == IF r.s.exc \/ r.ok THEN r
                   ELSE [r EXCEPT !.s = saveTransactions(@, Block[id].txs)]
  IN
  IF ~ld.ok THEN pushBlockFailed(ld.s, bvc)
  ELSE pushed(pushBlockWithTransactions(ld.s, id, Block[id].txs, bvc, ub))

\* Blockchain::pushBlock(blockData, id, bvc): [s, ok, bvc]
pushBlock(s, id, bvc, ub) ==
  IF s.exc THEN pushBlockSilent(s, bvc)
  ELSE pushBlockLoaded(loadTransactions(s, id), id, bvc, ub)

----------------------------------------------------------------------------
(* popBlock                                                                *)

\* Blockchain::removeLastBlock.  height is the tip height plus one, so the
\* g/ key deleted is not the tip's and the b/ key deleted with must-exist is
\* one past the tip: DB::del throws when that key is absent.  The tip's
\* block record is deleted before that; the cached height is stored back
\* unchanged (post-decrement of a temporary).
removeLastBlock(s) ==
  LET deleted(s2, height) ==
        IF ~Has(s2.b, height) THEN Throw(s2) ELSE [s2 EXCEPT !.b = Del(@, height)]
      popped(s1, b, height, blockHash) ==
        IF s1.exc THEN s1
        ELSE deleted([s1 EXCEPT !.T = Del(@, b.ts),
                                !.lastGen = @ - (Len(b.txs) + 1),
                                !.g = Del(@, height),
                                !.B = Del(@, blockHash)],
                     height)
      remove(height, blockHash) ==
        IF ~Has(s.B, blockHash) THEN Throw(s)
        ELSE popped(popTransactions(s, s.B[blockHash]), Block[s.B[blockHash].bl], height,
                    blockHash)
  IN
  IF s.exc \/ ChainEmpty(s) THEN s
  ELSE remove(TipHeight(s) + 1, s.b[TipHeight(s)])

\* Blockchain::popBlock
popBlock(s) ==
  LET pop(e) ==
        removeLastBlock(
          saveTransactions(s, [i \in 1..(Len(e.transactions) - 1) |-> e.transactions[i + 1].tx]))
      tip(id) == IF ~Has(s.B, id) THEN Throw(s) ELSE pop(s.B[id])
  IN
  IF s.exc \/ ChainEmpty(s) THEN s
  ELSE tip(s.b[TipHeight(s)])

\* popBlock n times
RECURSIVE popBlocks(_, _)
popBlocks(s, n) == IF n <= 0 \/ s.exc THEN s ELSE popBlocks(popBlock(s), n - 1)

\* the second loop of rollback_blockchain_switching: the blocks i.. of
\* original_chain are pushed back
RECURSIVE pushOriginalChain(_, _, _, _)
pushOriginalChain(s, original_chain, i, ub) ==
  LET pushed(r) == IF ~(r.ok /\ r.bvc.m_added_to_main_chain) THEN [s |-> r.s, ok |-> FALSE]
                   ELSE pushOriginalChain(r.s, original_chain, i + 1, ub)
  IN
  IF s.exc THEN [s |-> s, ok |-> FALSE]
  ELSE IF i > Len(original_chain) THEN [s |-> s, ok |-> TRUE]
  ELSE pushed(pushBlock(s, original_chain[i], BvcInit, ub))

\* Blockchain::rollback_blockchain_switching: [s, ok]
rollback_blockchain_switching(s, original_chain, rollback_height, ub) ==
  pushOriginalChain(popBlocks(s, s.height - rollback_height), original_chain, 1, ub)

----------------------------------------------------------------------------
(* Alternative chains and reorganization                                   *)

\* Blockchain::getBlockCumulativeSize: the coinbase and the transactions found
\* on the chain or in the pool
getBlockCumulativeSize(s, b) ==
  TxBlobSize + TxBlobSize * Cardinality({ i \in 1..Len(b.txs) :
                                            Has(s.t, b.txs[i]) \/ b.txs[i] \in s.pool })

\* Blockchain::complete_timestamps_vector: the timestamps vector it leaves
RECURSIVE completeFrom(_, _, _, _)
completeFrom(s, start_top_height, stop_offset, timestamps) ==
  LET appended(ts1) ==
        IF start_top_height = 0 \/ start_top_height - 1 = stop_offset THEN ts1
        ELSE completeFrom(s, start_top_height - 1, stop_offset, ts1)
  IN
  IF ~Has(s.b, start_top_height) \/ ~Has(s.B, s.b[start_top_height]) THEN timestamps
  ELSE appended(Append(timestamps, Block[s.B[s.b[start_top_height]].bl].ts))

complete_timestamps_vector(s, blockMajorVersion, start_top_height, timestamps) ==
  LET need(need_elements) ==
        completeFrom(s, start_top_height,
                     IF start_top_height > need_elements
                     THEN start_top_height - need_elements ELSE 0,
                     timestamps)
  IN
  IF Len(timestamps) >= timestampCheckWindow(blockMajorVersion) THEN timestamps
  ELSE IF ~(start_top_height < s.height) THEN timestamps
  ELSE need(timestampCheckWindow(blockMajorVersion) - Len(timestamps))

\* the walk from it_prev through m_alternative_chains: ids, front first
RECURSIVE altChainFrom(_, _)
altChainFrom(alt, h) ==
  IF ~Has(alt, h) THEN <<>> ELSE Append(altChainFrom(alt, Block[h].prev), h)

\* the timestamps of an alternative chain, in walking order (back first)
altTimestamps(alt_chain) ==
  [i \in 1..Len(alt_chain) |-> Block[alt_chain[Len(alt_chain) + 1 - i]].ts]

\* Blockchain::get_next_difficulty_for_alternative_chain: Currency::nextDifficulty
\* over the chain that ends in the parent of the block
get_next_difficulty_for_alternative_chain(b) ==
  IF b.prev \in BlockIds THEN Block[b.prev].nextDiff ELSE 1

\* remove the entries i.. of alt_chain from m_alternative_chains
RECURSIVE eraseFrom(_, _, _)
eraseFrom(alt, alt_chain, i) ==
  IF i > Len(alt_chain) THEN alt ELSE eraseFrom(Del(alt, alt_chain[i]), alt_chain, i + 1)

\* the decision handle_alternative_block took: whether it reached the
\* comparison, whether it called switch_to_alternative_blockchain, for a
\* checkpoint or not, with what chain, and the cumulative difficulty of the
\* alternative chain
NoDecision ==
  [ reached |-> FALSE, entered |-> FALSE, is_a_checkpoint |-> FALSE, alt_chain |-> <<>>,
    bei_cumulative_difficulty |-> 0 ]

RECURSIVE handle_alternative_block(_, _, _, _, _, _, _)
RECURSIVE switch_to_alternative_blockchain(_, _, _, _, _, _)

\* disconnecting old chain: the blocks from height i down to split_height
\* are popped; chain collects their hashes, lowest first
RECURSIVE disconnectOldChain(_, _, _, _)
disconnectOldChain(s, split_height, i, chain) ==
  IF s.exc \/ i < split_height THEN [s |-> s, chain |-> chain]
  ELSE IF ~Has(s.b, i) THEN [s |-> Throw(s), chain |-> chain]
  ELSE disconnectOldChain(popBlock(s), split_height, i - 1, <<s.b[i]>> \o chain)

\* connecting new alternative chain: the blocks i.. of alt_chain are pushed;
\* on a failure the old chain is put back and the entries i.. are erased
RECURSIVE connectAlternativeChain(_, _, _, _, _, _)

\* r is what pushBlock answered for alt_chain[i]
connectPushed(r, alt_chain, disconnected_chain, split_height, i, ub) ==
  LET rolled(rb) == [s |-> [rb.s EXCEPT !.alt = eraseFrom(@, alt_chain, i)], ok |-> FALSE]
  IN
  IF r.s.exc THEN [s |-> r.s, ok |-> FALSE]
  ELSE IF ~r.ok \/ ~r.bvc.m_added_to_main_chain
  THEN rolled(rollback_blockchain_switching(r.s, disconnected_chain, split_height, ub))
  ELSE connectAlternativeChain(r.s, alt_chain, disconnected_chain, split_height, i + 1, ub)

connectAlternativeChain(s, alt_chain, disconnected_chain, split_height, i, ub) ==
  IF s.exc THEN [s |-> s, ok |-> FALSE]
  ELSE IF i > Len(alt_chain) THEN [s |-> s, ok |-> TRUE]
  ELSE connectPushed(pushBlock(s, alt_chain[i], BvcInit, ub),
                     alt_chain, disconnected_chain, split_height, i, ub)

\* pushing old chain as alternative chain: the blocks i.. of
\* disconnected_chain, until one fails
RECURSIVE pushOldChainAsAlternative(_, _, _, _, _, _)
pushOldChainAsAlternative(s, disconnected_chain, i, dns, garbage, ub) ==
  LET handled(r) == IF ~r.ok THEN r.s
                    ELSE pushOldChainAsAlternative(r.s, disconnected_chain, i + 1,
                                                   dns, garbage, ub)
  IN
  IF s.exc \/ i > Len(disconnected_chain) THEN s
  ELSE handled(handle_alternative_block(s, disconnected_chain[i], BvcInit, FALSE,
                                        dns, garbage, ub))

\* switch_to_alternative_blockchain once the alternative chain is connected:
\* the old chain goes to the alternative chains unless it is discarded, the
\* alternative entries are erased and the switch is announced
switchConnected(c, alt_chain, disconnected_chain, discard_disconnected_chain, dns, garbage, ub) ==
  LET switched(s1) ==
        IF s1.exc THEN [s |-> s1, ok |-> FALSE]
        ELSE [ s |-> sendMessage([s1 EXCEPT !.alt = eraseFrom(@, alt_chain, 1)],
                                 [type |-> "ChainSwitchMessage",
                                  hashes |-> <<Block[alt_chain[1]].prev>> \o alt_chain]),
               ok |-> TRUE ]
  IN
  IF c.s.exc \/ ~c.ok THEN c
  ELSE switched(IF discard_disconnected_chain THEN c.s
                ELSE pushOldChainAsAlternative(c.s, disconnected_chain, 1, dns, garbage, ub))

\* switch_to_alternative_blockchain once the old chain is disconnected: d is
\* [s, chain]
switchDisconnected(d, alt_chain, split_height, discard_disconnected_chain, dns, garbage, ub) ==
  switchConnected(connectAlternativeChain(d.s, alt_chain, d.chain, split_height, 1, ub),
                  alt_chain, d.chain, discard_disconnected_chain, dns, garbage, ub)

\* Blockchain::switch_to_alternative_blockchain: [s, ok].  The chains are
\* shorter than POISSON_CHECK_TRIGGER.
switch_to_alternative_blockchain(s, alt_chain, discard_disconnected_chain, dns, garbage, ub) ==
  IF s.exc \/ alt_chain = <<>> THEN [s |-> s, ok |-> FALSE]
  ELSE IF ~(s.height > s.alt[alt_chain[1]].height) THEN [s |-> s, ok |-> FALSE]
  ELSE switchDisconnected(
         disconnectOldChain(s, s.alt[alt_chain[1]].height, s.height - 1, <<>>),
         alt_chain, s.alt[alt_chain[1]].height, discard_disconnected_chain, dns, garbage, ub)

\* handle_alternative_block: the previous block is looked up on the main
\* chain (getBlockHeight) and in m_alternative_chains
parentKnownAlways(s, b) == TRUE

parentKnown(s, b) == Has(s.alt, b.prev) \/ Has(s.B, b.prev)

\* the checks of handle_alternative_block and the insertion into
\* m_alternative_chains: [s, ok, bvc, dec]; dec.reached says that the block
\* entry was inserted.  tip_be is a default-initialised BlockEntry filled
\* from the 32 bytes of the b/ cursor value, which do not parse as a
\* BlockEntry: its cumulative_difficulty is indeterminate, garbage is the
\* value the comparison reads.
alternativeBlockInserted(s0, id, bvc, dns, garbage) ==
  LET ret(st, ok, c, dec) == [s |-> st, ok |-> ok, bvc |-> c, dec |-> dec]
      failed(st) == ret(st, FALSE, [bvc EXCEPT !.m_verification_failed = TRUE], NoDecision)
      silent(st) == ret(st, FALSE, bvc, NoDecision)
      \* the block entry goes into m_alternative_chains
      inserted(s, is_a_checkpoint, alt_chain, bei) ==
        ret([s EXCEPT !.alt = Put(@, id, bei)], TRUE, bvc,
            [ reached |-> TRUE,
              entered |-> is_a_checkpoint \/ garbage < bei.cumulative_difficulty,
              is_a_checkpoint |-> is_a_checkpoint,
              alt_chain |-> Append(alt_chain, id),
              bei_cumulative_difficulty |-> bei.cumulative_difficulty ])
      \* the checks of a block whose parent is known
      validated(s, b, alt_chain, mainPrevHeight, height, cp, current_diff) ==
        LET front == IF alt_chain = <<>> THEN [height |-> 0] ELSE s.alt[alt_chain[1]]
            connected ==
              alt_chain = <<>>
              \/ /\ s.height > front.height
                 /\ Has(s.b, front.height - 1)
                 /\ s.b[front.height - 1] = Block[alt_chain[1]].prev
            timestamps ==
              complete_timestamps_vector(s, b.ver,
                IF alt_chain = <<>> THEN mainPrevHeight ELSE front.height - 1,
                altTimestamps(alt_chain))
        IN
        IF ~connected THEN silent(s)
        ELSE IF ~check_block_timestamp(timestamps, b) THEN failed(s)
        ELSE IF ~cp.ok THEN failed(s)
        ELSE IF b.ver >= 5 /\ b.mm THEN silent(s)
        ELSE IF current_diff = 0 THEN silent(s)
        ELSE IF ~b.pow THEN failed(s)
        ELSE IF ~prevalidate_miner_transaction(b, height) THEN failed(s)
        ELSE IF ~Has(s.b, mainPrevHeight) \/ ~Has(s.B, s.b[mainPrevHeight]) THEN silent(s)
        ELSE IF Has(s.alt, id) THEN silent(s)
        ELSE inserted(s, cp.is_a_checkpoint, alt_chain,
                      [ bl |-> id, height |-> height, block_cumulative_size |-> 0,
                        cumulative_difficulty |->
                          (IF alt_chain = <<>> THEN s.B[s.b[mainPrevHeight]].cumulative_difficulty
                           ELSE s.alt[b.prev].cumulative_difficulty) + current_diff,
                        already_generated_coins |-> 0, transactions |-> <<>> ])
      \* the alternative chain the block continues
      chained(s, b, alt_chain, mainPrevHeight) ==
        LET at(height) ==
              validated(s, b, alt_chain, mainPrevHeight, height,
                        check_block(s.points, height, id),
                        get_next_difficulty_for_alternative_chain(b))
        IN at(IF alt_chain = <<>> THEN mainPrevHeight + 1 ELSE s.alt[b.prev].height + 1)
      loaded(s, b) ==
        IF s.exc THEN silent(s)
        ELSE IF b.hgt = 0 THEN failed(s)
        ELSE IF ~is_alternative_block_allowed(s.points, s.height, b.hgt) THEN failed(s)
        ELSE IF ~checkBlockVersion(b) THEN failed(s)
        ELSE IF ~checkCumulativeBlockSize(getBlockCumulativeSize(s, b), b.hgt) THEN failed(s)
        ELSE IF ~parentKnown(s, b)
          THEN ret(s, TRUE, [bvc EXCEPT !.m_marked_as_orphaned = TRUE], NoDecision)
        ELSE chained(s, b, altChainFrom(s.alt, b.prev),
                     IF Has(s.B, b.prev) THEN s.B[b.prev].height ELSE 0)
      offered(b) ==
        loaded(IF s0.exc \/ b.hgt = 0 THEN s0 ELSE load_checkpoints_from_dns(s0, dns), b)
  IN offered(Block[id])

\* handle_alternative_block from the comparison with the tip on: c is what
\* the checks and the insertion left
alternativeBlockDecided(c, id, bvc, sendNewAlternativeBlockMessage, dns, garbage, ub) ==
  LET ret(st, ok, cx) == [s |-> st, ok |-> ok, bvc |-> cx, dec |-> c.dec]
      switched(r) ==
        IF r.s.exc THEN ret(r.s, FALSE, bvc)
        ELSE IF r.ok
        THEN ret(r.s, TRUE, [bvc EXCEPT !.m_added_to_main_chain = TRUE,
                                        !.m_switched_to_alt_chain = TRUE])
        ELSE ret(r.s, FALSE, [bvc EXCEPT !.m_verification_failed = TRUE])
  IN
  IF ~c.dec.reached THEN c
  ELSE IF c.dec.entered
  THEN switched(switch_to_alternative_blockchain(c.s, c.dec.alt_chain, c.dec.is_a_checkpoint,
                                                 dns, garbage, ub))
  ELSE ret(IF sendNewAlternativeBlockMessage
           THEN sendMessage(c.s, [type |-> "NewAlternativeBlockMessage", hash |-> id])
           ELSE c.s,
           TRUE, bvc)

\* Blockchain::handle_alternative_block: [s, ok, bvc, dec]
handle_alternative_block(s0, id, bvc, sendNewAlternativeBlockMessage, dns, garbage, ub) ==
  alternativeBlockDecided(alternativeBlockInserted(s0, id, bvc, dns, garbage),
                          id, bvc, sendNewAlternativeBlockMessage, dns, garbage, ub)

----------------------------------------------------------------------------
(* The operations                                                          *)

\* the state a call leaves
Commit(s) ==
  /\ db_b' = s.b /\ db_B' = s.B /\ db_t' = s.t /\ db_k' = s.k /\ db_o' = s.o
  /\ db_m' = s.m /\ db_p' = s.p /\ db_T' = s.T /\ db_g' = s.g
  /\ m_height' = s.height /\ m_lastGeneratedTxNumber' = s.lastGen
  /\ m_alternative_chains' = s.alt /\ m_points' = s.points
  /\ pool' = s.pool /\ queue' = s.queue /\ thrown' = s.exc
  /\ m_synchronized' = s.synchronized

NoCall ==
  [ id |-> 0, result |-> "none", bvc |-> BvcInit, dec |-> NoDecision,
    tip_cumulative_difficulty |-> 0, commits |-> 0 ]

\* what load_checkpoints_from_dns may find
DnsRecords == { EmptyMap, [h \in {3} |-> 7] }

\* Blockchain::getBlockIdByHeight
getBlockIdByHeight(s, height) == IF Has(s.b, height) THEN s.b[height] ELSE NULL_HASH

\* Blockchain::checkCheckpoints over the checkpoint heights hs, lowest
\* first: [ok, lastValidCheckpointHeight]
RECURSIVE checkCheckpointsFrom(_, _, _)
checkCheckpointsFrom(s, hs, lastValidCheckpointHeight) ==
  IF hs = {} \/ s.height <= Min(hs)
  THEN [ok |-> TRUE, lastValidCheckpointHeight |-> lastValidCheckpointHeight]
  ELSE IF s.points[Min(hs)] = getBlockIdByHeight(s, Min(hs))
  THEN checkCheckpointsFrom(s, hs \ {Min(hs)}, Min(hs))
  ELSE [ok |-> FALSE, lastValidCheckpointHeight |-> lastValidCheckpointHeight]

checkCheckpoints(s) == checkCheckpointsFrom(s, DOMAIN s.points, 0)

\* Blockchain::rollbackBlockchainTo: removeLastBlock while height + 1 is
\* below the cached height (which removeLastBlock does not lower; on an
\* empty store the loop of the code would not end)
RECURSIVE rollbackBlockchainTo(_, _)
rollbackBlockchainTo(s, height) ==
  IF s.exc \/ ChainEmpty(s) \/ ~(height + 1 < s.height) THEN s
  ELSE rollbackBlockchainTo(removeLastBlock(s), height)

\* init: the first block of the height index is not the genesis block of
\* the currency
genesisMismatchNever(s) == FALSE

genesisMismatch(s) == s.b[Min(DOMAIN s.b)] /= GenesisHash

\* init once the genesis block is there: m_lastGeneratedTxNumber is read
\* from the g/ cursor, then the checkpoints are checked and the chain is
\* rolled back to the last valid one when a check fails
initCheckpointed(s) ==
  IF checkCheckpoints(s).ok THEN s
  ELSE rollbackBlockchainTo(s, checkCheckpoints(s).lastValidCheckpointHeight)

initLoaded(s) ==
  IF s.exc THEN s
  ELSE initCheckpointed([s EXCEPT !.lastGen = IF DOMAIN s.g = {} THEN 0 ELSE Max(DOMAIN s.g)])

\* init on an empty store: r is what pushBlock answered for the genesis block
initGenesis(r) ==
  IF r.s.exc \/ r.bvc.m_verification_failed THEN [s |-> r.s, ok |-> FALSE]
  ELSE [s |-> initLoaded(r.s), ok |-> TRUE]

\* Blockchain::init: [s, ok]; m_height is read from the b/ cursor
initCall(s) ==
  IF ChainEmpty(s)
  THEN initGenesis(pushBlock([s EXCEPT !.height = 0], GenesisHash, BvcInit, "skip"))
  ELSE IF genesisMismatch(s) THEN [s |-> [s EXCEPT !.height = TipHeight(s) + 1], ok |-> FALSE]
  ELSE [s |-> initLoaded([s EXCEPT !.height = TipHeight(s) + 1]), ok |-> TRUE]

\* the format this build reads and writes
version_current == "current"

\* init, from the $version key on: a store without the key is given it when
\* the store is empty and is refused with an exception when it is not; a
\* store of another format is left to the caller
init ==
  LET returned(r) == Commit(r.s) /\ initialized' = (r.ok /\ ~r.s.exc)
      stopped(exc) ==
        /\ thrown' = exc
        /\ UNCHANGED << db_b, db_B, db_t, db_k, db_o, db_m, db_p, db_T, db_g, db_version,
                        m_height, m_lastGeneratedTxNumber, m_alternative_chains, m_points,
                        pool, queue, initialized, m_synchronized >>
  IN
  /\ ~initialized /\ ~thrown
  /\ IF db_version = "" /\ ~ChainEmpty(Cur) THEN stopped(TRUE)
     ELSE IF db_version \notin {"", version_current} THEN stopped(FALSE)
     ELSE returned(initCall(Cur)) /\ db_version' = version_current
  /\ last' = NoCall
  /\ UNCHANGED << feed, locks, observed, miner, templates, detector >>

\* Blockchain::addNewBlock(bl, bvc): [s, ok, bvc, dec]
addNewBlockCall(s, id, dns, garbage, ub) ==
  LET pushed(r) ==
        [ s |-> IF r.ok /\ ~r.s.exc
                THEN sendMessage(r.s, [type |-> "NewBlockMessage", hash |-> id]) ELSE r.s,
          ok |-> r.ok, bvc |-> r.bvc, dec |-> NoDecision ]
  IN
  IF haveBlock(s, id)
  THEN [s |-> s, ok |-> FALSE, bvc |-> [BvcInit EXCEPT !.m_already_exists = TRUE],
        dec |-> NoDecision]
  ELSE IF Block[id].prev /= getTailId(s)
  THEN handle_alternative_block(s, id, BvcInit, TRUE, dns, garbage, ub)
  ELSE pushed(pushBlock(s, id, BvcInit, ub))

\* addNewBlock under poolLock and bcLock; an exception that leaves it ends
\* the use of the object
addNewBlockLocked(id, dns, garbage, ub) ==
  LET returned(r) ==
        /\ Commit(r.s)
        /\ last' = [ id |-> id,
                     result |-> IF r.s.exc THEN "threw" ELSE IF r.ok THEN "true" ELSE "false",
                     bvc |-> r.bvc, dec |-> r.dec,
                     tip_cumulative_difficulty |->
                       db_B[getTailId(Cur)].cumulative_difficulty,
                     commits |-> r.s.commits ]
  IN
  /\ initialized /\ ~thrown
  /\ \A a \in DOMAIN db_o : Len(db_o[a]) < MaxOutputs
  /\ returned(addNewBlockCall(Cur, id, dns, garbage, ub))
  /\ UNCHANGED << initialized, feed, db_version >>

\* the observer reads the tip height in blockchainUpdated; it is told which
\* path added the block
blockchainUpdated(path) ==
  observed' = Append(observed, [height |-> m_height' - 1,
                                reorganized |-> path = "switch_to_alternative_blockchain"])

\* the path by which the last call added a block to the main chain
addedBy(call) ==
  IF call.bvc.m_switched_to_alt_chain THEN "switch_to_alternative_blockchain" ELSE "pushBlock"

\* addNewBlock run by one thread: the locked part, then the observers are
\* notified when the block went to the main chain
addNewBlock(id, dns, garbage, ub) ==
  /\ addNewBlockLocked(id, dns, garbage, ub)
  /\ IF last'.result = "true" /\ last'.bvc.m_added_to_main_chain
     THEN blockchainUpdated(addedBy(last'))
     ELSE UNCHANGED observed
  /\ UNCHANGED << locks, miner, templates, detector >>

\* the transactions of the offered blocks
FeedTxs == UNION { SeqToSet(Block[id].txs) : id \in feed }

\* a transaction reaches the pool (core adds it unless the chain has it)
PoolAdd(t) ==
  /\ initialized /\ ~thrown
  /\ t \notin pool /\ ~Has(db_t, t)
  /\ pool' = pool \cup {t}
  /\ last' = NoCall
  /\ UNCHANGED << db_b, db_B, db_t, db_k, db_o, db_m, db_p, db_T, db_g, m_height,
                  m_lastGeneratedTxNumber, m_alternative_chains, m_points, queue,
                  initialized, thrown, feed, locks, db_version, observed,
                  m_synchronized, miner, templates, detector >>

\* Blockchain::on_synchronized
on_synchronized ==
  /\ initialized /\ ~thrown /\ ~m_synchronized
  /\ m_synchronized' = TRUE
  /\ last' = NoCall
  /\ UNCHANGED << db_b, db_B, db_t, db_k, db_o, db_m, db_p, db_T, db_g, m_height,
                  m_lastGeneratedTxNumber, m_alternative_chains, m_points, pool, queue,
                  initialized, thrown, feed, locks, db_version, observed, miner, templates, detector >>

\* the inputs of addNewBlock that the call can read
Garbage(id) == IF Block[id].prev /= getTailId(Cur) THEN 0..MaxGarbage ELSE {0}
Dns(id) == IF Block[id].prev /= getTailId(Cur) THEN DnsRecords ELSE {EmptyMap}
Ub(id) == IF \E i \in 1..Len(Block[id].txs) : Tx[Block[id].txs[i]].msin /= <<>>
          THEN {"crash", "skip"} ELSE {"skip"}

\* the runs: a fork of the chain that ends in a checkpoint; blocks that spend
\* a key image twice; a block that is too large and a chain whose difficulty
\* falls to zero; a block that names a wrong height and one with a
\* merge-mining tag; blocks that spend a multisignature output
Feeds == { {2, 3, 5, 6, 7}, {2, 3, 4, 8, 9, 20}, {5, 22, 12, 13}, {3, 21, 2, 11},
           {2, 3, 19, 24}, {5, 8, 25, 26} }

\* the threads that call into the Blockchain
NThreads == 3
Threads == 1..NThreads

\* the most workers a mine call starts
MinerThreads == 2
Workers == 1..MinerThreads

\* a Block of the miner: what the workers read and change of it
NoBlock == [majorVersion |-> 0, nonce |-> 0]
NoWorker == [pc |-> "none", blockTemplate |-> NoBlock, block |-> NoBlock]

\* the Miner after its constructor: MINING_STOPPED, no worker, nobody inside
MinerIdle ==
  /\ m_state = "MINING_STOPPED"
  /\ m_block = NoBlock
  /\ m_miningStopped = FALSE
  /\ m_workers = [w \in Workers |-> NoWorker]
  /\ mineCall = [pc |-> "idle", difficulty |-> 0, threadCount |-> 0, result |-> NoBlock]
  /\ stopCall = [pc |-> "idle", inProgress |-> FALSE]
  /\ found = [won |-> {}, lost |-> {}, wrote |-> {}]

\* the miner of the core after its constructor: no template, version 0
NoTemplate == [majorVersion |-> 0, id |-> 0]
TemplateIdle ==
  /\ m_template = NoTemplate
  /\ m_diffic = 0
  /\ m_template_no = 0
  /\ workerLocal = [t \in Workers |->
                     [pc |-> "while", b |-> NoTemplate, local_diff |-> 0,
                      local_template_ver |-> 0]]
  /\ installed = EmptyMap

\* Currency parameters of the upgrade vote (outside the sources), the target
\* version of the detector, and a chain of the genesis block alone
\* UNDEF_HEIGHT (0xFFFFFFFF in the source) is the greatest height here
UNDEF_HEIGHT == 2147483647
BLOCK_MINOR_VERSION_1 == 1
upgradeVotingWindow == 3
upgradeVotingThreshold == 60
maxUpgradeDistance == 2
m_targetVersion == 2
MaxChain == 6
DetectorIdle ==
  /\ m_blockchain = << [majorVersion |-> m_targetVersion - 1, minorVersion |-> 0] >>
  /\ m_votingCompleteHeight = UNDEF_HEIGHT
  /\ m_tip_height = 0
  /\ m_tip_b = [majorVersion |-> m_targetVersion - 1, minorVersion |-> 0]
  /\ upgradeInit = "none"

\* no thread is inside the Blockchain
LocksFree ==
  /\ poolLock = 0
  /\ m_blockchain_lock = [owner |-> 0, count |-> 0]
  /\ thread = [t \in Threads |-> [pc |-> "idle", caller |-> "none"]]
  /\ observed = <<>>
  /\ MinerIdle
  /\ TemplateIdle
  /\ DetectorIdle

\* an empty store and a freshly constructed Blockchain
EmptyStore ==
  [ b |-> EmptyMap, B |-> EmptyMap, t |-> EmptyMap, k |-> EmptyMap, o |-> EmptyMap,
    m |-> EmptyMap, p |-> EmptyMap, T |-> EmptyMap, g |-> EmptyMap, height |-> 0,
    lastGen |-> 0, alt |-> EmptyMap, points |-> EmptyMap, pool |-> {}, queue |-> <<>>,
    exc |-> FALSE, synchronized |-> FALSE, commits |-> 0 ]

\* the stores init may find in the data directory: none, the store of this
\* currency after its genesis block, the store of another network
Stores ==
  { EmptyStore,
    pushBlock(EmptyStore, GenesisHash, BvcInit, "skip").s,
    pushBlock(EmptyStore, ForeignGenesisHash, BvcInit, "skip").s }

\* the $version key of a store: absent before the first init, then the
\* format of the release that wrote the store
Versions(st) == IF ChainEmpty(st) THEN {""} ELSE {version_current, "old"}

Init ==
  /\ \E st \in Stores :
       /\ db_b = st.b /\ db_B = st.B /\ db_t = st.t /\ db_k = st.k
       /\ db_o = st.o /\ db_m = st.m /\ db_p = st.p /\ db_T = st.T
       /\ db_g = st.g
       /\ db_version \in Versions(st)
  /\ m_height = 0 /\ m_lastGeneratedTxNumber = 0 /\ m_synchronized = FALSE
  /\ m_alternative_chains = EmptyMap /\ m_points = EmptyMap
  /\ pool = {} /\ queue = <<>>
  /\ initialized = FALSE /\ thrown = FALSE
  /\ last = NoCall
  /\ feed \in Feeds
  /\ LocksFree

Next ==
  \/ init
  \/ \E id \in feed : \E dns \in Dns(id) : \E garbage \in Garbage(id) : \E ub \in Ub(id) :
       addNewBlock(id, dns, garbage, ub)
  \/ \E t \in FeedTxs : PoolAdd(t)
  \/ on_synchronized

Spec == Init /\ [][Next]_vars

----------------------------------------------------------------------------
(* The locks.  Each thread runs addNewBlock, resetAndSetGenesisBlock or    *)
(* init; a step is one lock_guard, the body under the locks, or the end of *)
(* a scope.  The body is the computation of the specification above and    *)
(* leaves the chain as it is here.                                         *)

chainState == << db_b, db_B, db_t, db_k, db_o, db_m, db_p, db_T, db_g, db_version, m_height,
                 m_synchronized,
                 m_lastGeneratedTxNumber, m_alternative_chains, m_points, pool, queue,
            initialized, thrown, feed, last, observed, miner, templates, detector >>

\* the Blockchain, its locks and its callers
node == << db_b, db_B, db_t, db_k, db_o, db_m, db_p, db_T, db_g, db_version, m_height,
           m_synchronized,
           m_lastGeneratedTxNumber, m_alternative_chains, m_points, pool, queue,
           initialized, thrown, feed, last, observed, locks >>

\* all but the Miner object
blockchain == << node, templates, detector >>

goto(t, pc, caller) == thread' = [thread EXCEPT ![t] = [pc |-> pc, caller |-> caller]]

\* std::lock_guard on the recursive m_blockchain_lock
lockChain(t) ==
  /\ m_blockchain_lock.owner \in {0, t}
  /\ m_blockchain_lock' = [owner |-> t, count |-> m_blockchain_lock.count + 1]

unlockChain(t) ==
  m_blockchain_lock' =
    IF m_blockchain_lock.count = 1 THEN [owner |-> 0, count |-> 0]
    ELSE [owner |-> t, count |-> m_blockchain_lock.count - 1]

\* a thread enters one of the three operations
call(t) ==
  /\ thread[t].pc = "idle"
  /\ \E pc \in {"addNewBlock_poolLock", "resetAndSetGenesisBlock_lk", "init_lk"} :
       goto(t, pc, "none")
  /\ UNCHANGED << chainState, poolLock, m_blockchain_lock >>

\* addNewBlock: poolLock(m_tx_pool)
addNewBlock_poolLock(t) ==
  /\ thread[t].pc = "addNewBlock_poolLock"
  /\ poolLock = 0
  /\ poolLock' = t
  /\ goto(t, "addNewBlock_bcLock", thread[t].caller)
  /\ UNCHANGED << chainState, m_blockchain_lock >>

\* addNewBlock: bcLock(m_blockchain_lock)
addNewBlock_bcLock(t) ==
  /\ thread[t].pc = "addNewBlock_bcLock"
  /\ lockChain(t)
  /\ goto(t, "addNewBlock_body", thread[t].caller)
  /\ UNCHANGED << chainState, poolLock >>

\* addNewBlock: haveBlock, pushBlock or handle_alternative_block
addNewBlock_body(t) ==
  /\ thread[t].pc = "addNewBlock_body"
  /\ goto(t, "addNewBlock_unlock", thread[t].caller)
  /\ UNCHANGED << chainState, poolLock, m_blockchain_lock >>

\* addNewBlock: the end of the scope of bcLock and poolLock
addNewBlock_unlock(t) ==
  /\ thread[t].pc = "addNewBlock_unlock"
  /\ unlockChain(t)
  /\ poolLock' = 0
  /\ goto(t, IF thread[t].caller = "resetAndSetGenesisBlock"
             THEN "resetAndSetGenesisBlock_unlock" ELSE "idle", "none")
  /\ UNCHANGED chainState

\* resetAndSetGenesisBlock: lk(m_blockchain_lock), the maps are cleared and
\* addNewBlock is called
resetAndSetGenesisBlock_lk(t) ==
  /\ thread[t].pc = "resetAndSetGenesisBlock_lk"
  /\ lockChain(t)
  /\ goto(t, "addNewBlock_poolLock", "resetAndSetGenesisBlock")
  /\ UNCHANGED << chainState, poolLock >>

resetAndSetGenesisBlock_unlock(t) ==
  /\ thread[t].pc = "resetAndSetGenesisBlock_unlock"
  /\ unlockChain(t)
  /\ goto(t, "idle", "none")
  /\ UNCHANGED << chainState, poolLock >>

\* init: lk(m_blockchain_lock)
init_lk(t) ==
  /\ thread[t].pc = "init_lk"
  /\ lockChain(t)
  /\ goto(t, "init_body", "none")
  /\ UNCHANGED << chainState, poolLock >>

\* init: the store is opened, the genesis block is pushed or compared
init_body(t) ==
  /\ thread[t].pc = "init_body"
  /\ goto(t, "init_unlock", "none")
  /\ UNCHANGED << chainState, poolLock, m_blockchain_lock >>

init_unlock(t) ==
  /\ thread[t].pc = "init_unlock"
  /\ unlockChain(t)
  /\ goto(t, "idle", "none")
  /\ UNCHANGED << chainState, poolLock >>

LockInit ==
  /\ db_b = EmptyMap /\ db_B = EmptyMap /\ db_t = EmptyMap /\ db_k = EmptyMap
  /\ db_o = EmptyMap /\ db_m = EmptyMap /\ db_p = EmptyMap /\ db_T = EmptyMap
  /\ db_g = EmptyMap /\ db_version = ""
  /\ m_height = 0 /\ m_lastGeneratedTxNumber = 0 /\ m_synchronized = FALSE
  /\ m_alternative_chains = EmptyMap /\ m_points = EmptyMap
  /\ pool = {} /\ queue = <<>>
  /\ initialized = FALSE /\ thrown = FALSE
  /\ last = NoCall
  /\ feed = {}
  /\ LocksFree

LockNext ==
  \E t \in Threads :
    \/ call(t)
    \/ addNewBlock_poolLock(t)
    \/ addNewBlock_bcLock(t)
    \/ addNewBlock_body(t)
    \/ addNewBlock_unlock(t)
    \/ resetAndSetGenesisBlock_lk(t)
    \/ resetAndSetGenesisBlock_unlock(t)
    \/ init_lk(t)
    \/ init_body(t)
    \/ init_unlock(t)

LockSpec == LockInit /\ [][LockNext]_vars

----------------------------------------------------------------------------
(* The notification of the observers.  addNewBlock leaves the scope of its *)
(* locks before it calls m_observerManager.notify, so the locked part is   *)
(* one step and the notification another.                                  *)

\* addNewBlock up to the end of the locked scope, run by thread t
addNewBlock_locked(t, id, dns, garbage, ub) ==
  /\ thread[t].pc = "idle"
  /\ addNewBlockLocked(id, dns, garbage, ub)
  /\ IF last'.result = "true" /\ last'.bvc.m_added_to_main_chain
     THEN goto(t, "addNewBlock_notify", addedBy(last'))
     ELSE UNCHANGED thread
  /\ UNCHANGED << poolLock, m_blockchain_lock, observed, miner, templates, detector >>

\* addNewBlock: m_observerManager.notify(blockchainUpdated), then return
addNewBlock_notify(t) ==
  /\ thread[t].pc = "addNewBlock_notify"
  /\ observed' = Append(observed,
                        [height |-> m_height - 1,
                         reorganized |-> thread[t].caller = "switch_to_alternative_blockchain"])
  /\ goto(t, "idle", "none")
  /\ UNCHANGED << db_b, db_B, db_t, db_k, db_o, db_m, db_p, db_T, db_g, db_version, m_height,
                  m_lastGeneratedTxNumber, m_alternative_chains, m_points, pool, queue,
                  initialized, thrown, feed, last, poolLock, m_blockchain_lock,
                  m_synchronized, miner, templates, detector >>

NotifyNext ==
  \/ init
  \/ \E t \in Threads : \E id \in feed : \E dns \in Dns(id) : \E garbage \in Garbage(id) :
       \E ub \in Ub(id) : addNewBlock_locked(t, id, dns, garbage, ub)
  \/ \E t \in Threads : addNewBlock_notify(t)
  \/ \E t \in FeedTxs : PoolAdd(t)

NotifySpec == Init /\ [][NotifyNext]_vars

----------------------------------------------------------------------------
(* The miner (src/src/Miner/Miner.cpp).  mine starts the workers and joins *)
(* them; each worker is a thread of its own that searches from its nonce;  *)
(* stop is called from another context of the dispatcher.  A step of a     *)
(* worker is one access to m_state or m_block.                             *)

\* nonces are counted modulo NonceSpace (uint32_t in the code), hashes are
\* below HashSpace (2^256 in the code)
NonceSpace == 4
HashSpace == 16
BLOCK_MAJOR_VERSION_5 == 5

\* the proof-of-work hash of a block before version 5
get_block_longhash(block) == (block.nonce * 5 + block.majorVersion * 9) % HashSpace

\* the proof-of-work hash from version 5 on: y_slow_hash of the signed
\* hashing blob extended with the blobs the blob selects
y_slow_hash(block) == (block.nonce * 5 + block.majorVersion * 9) % HashSpace

\* check_hash: hash * difficulty does not overflow the hash space
check_hash(hash, difficulty) == hash * difficulty < HashSpace

\* the hash one iteration of workerFunc hands to check_hash
workerHash(blockTemplate, block) ==
  IF blockTemplate.majorVersion < BLOCK_MAJOR_VERSION_5
  THEN get_block_longhash(block)
  ELSE y_slow_hash(blockTemplate)

\* Miner::setStateBlockFound, a store in place of the compare-exchange
setStateBlockFoundStore(state) == [ok |-> TRUE, state |-> "BLOCK_FOUND"]

\* Miner::setStateBlockFound: [ok, state]; a compare-exchange that fails
\* with the state unchanged is tried again
setStateBlockFound(state) ==
  IF state = "MINING_IN_PROGRESS" THEN [ok |-> TRUE, state |-> "BLOCK_FOUND"]
  ELSE [ok |-> FALSE, state |-> state]

\* Miner::mine up to the start of the workers: the checks, the state, the
\* event, and runWorkers up to the join
mine(majorVersion, nonce, difficulty, threadCount) ==
  /\ mineCall.pc /= "runWorkers"
  /\ IF threadCount = 0 \/ m_state = "MINING_IN_PROGRESS"
     THEN /\ mineCall' = [pc |-> "thrown", difficulty |-> difficulty,
                          threadCount |-> threadCount, result |-> NoBlock]
          /\ UNCHANGED << m_state, m_miningStopped, m_workers, found >>
     ELSE /\ m_state' = "MINING_IN_PROGRESS"
          /\ m_miningStopped' = FALSE
          /\ m_workers' =
               [w \in Workers |->
                 IF w <= threadCount
                 THEN LET blockTemplate == [majorVersion |-> majorVersion,
                                            nonce |-> (nonce + w - 1) % NonceSpace]
                      IN [pc |-> "while", blockTemplate |-> blockTemplate,
                          block |-> blockTemplate]
                 ELSE NoWorker]
          /\ found' = [won |-> {}, lost |-> {}, wrote |-> {}]
          /\ mineCall' = [pc |-> "runWorkers", difficulty |-> difficulty,
                          threadCount |-> threadCount, result |-> NoBlock]
  /\ UNCHANGED << m_block, stopCall, blockchain >>

\* workerFunc: the condition of the loop
workerFunc_while(w) ==
  /\ m_workers[w].pc = "while"
  /\ m_workers' = [m_workers EXCEPT
                     ![w].pc = IF m_state = "MINING_IN_PROGRESS" THEN "hash" ELSE "done"]
  /\ UNCHANGED << m_state, m_block, m_miningStopped, mineCall, stopCall, found, blockchain >>

\* workerFunc: the hash of this iteration and check_hash; a hash function
\* that fails, or an exception, stores MINING_STOPPED
workerFunc_hash(w, failed) ==
  /\ m_workers[w].pc = "hash"
  /\ IF failed
     THEN m_state' = "MINING_STOPPED" /\ m_workers' = [m_workers EXCEPT ![w].pc = "done"]
     ELSE /\ UNCHANGED m_state
          /\ IF check_hash(workerHash(m_workers[w].blockTemplate, m_workers[w].block),
                           mineCall.difficulty)
             THEN m_workers' = [m_workers EXCEPT ![w].pc = "setStateBlockFound"]
             ELSE m_workers' =
                    [m_workers EXCEPT
                       ![w].pc = "while",
                       ![w].block.nonce = (@ + mineCall.threadCount) % NonceSpace]
  /\ UNCHANGED << m_block, m_miningStopped, mineCall, stopCall, found, blockchain >>

\* workerFunc: setStateBlockFound
workerFunc_setStateBlockFound(w) ==
  /\ m_workers[w].pc = "setStateBlockFound"
  /\ m_state' = setStateBlockFound(m_state).state
  /\ IF setStateBlockFound(m_state).ok
     THEN m_workers' = [m_workers EXCEPT ![w].pc = "m_block"] /\ found' = [found EXCEPT !.won = @ \cup {w}]
     ELSE m_workers' = [m_workers EXCEPT ![w].pc = "done"] /\ found' = [found EXCEPT !.lost = @ \cup {w}]
  /\ UNCHANGED << m_block, m_miningStopped, mineCall, stopCall, blockchain >>

\* workerFunc: m_block = block
workerFunc_m_block(w) ==
  /\ m_workers[w].pc = "m_block"
  /\ m_block' = m_workers[w].block
  /\ found' = [found EXCEPT !.wrote = @ \cup {[worker |-> w, block |-> m_workers[w].block]}]
  /\ m_workers' = [m_workers EXCEPT ![w].pc = "done"]
  /\ UNCHANGED << m_state, m_miningStopped, mineCall, stopCall, blockchain >>

\* runWorkers from the join on (m_workers.clear(), the event) and the end of
\* mine: InterruptedException when the state is MINING_STOPPED, m_block
\* otherwise
mine_return ==
  /\ mineCall.pc = "runWorkers"
  /\ \A w \in Workers : m_workers[w].pc \in {"none", "done"}
  /\ m_workers' = [w \in Workers |-> NoWorker]
  /\ m_miningStopped' = TRUE
  /\ mineCall' = IF m_state = "MINING_STOPPED"
                 THEN [mineCall EXCEPT !.pc = "thrown"]
                 ELSE [mineCall EXCEPT !.pc = "returned", !.result = m_block]
  /\ UNCHANGED << m_state, m_block, stopCall, found, blockchain >>

\* Miner::stop is called
stop ==
  /\ stopCall.pc \in {"idle", "returned"}
  /\ stopCall' = [pc |-> "compare_exchange_weak", inProgress |-> m_state = "MINING_IN_PROGRESS"]
  /\ UNCHANGED << m_state, m_block, m_miningStopped, m_workers, mineCall, found, blockchain >>

\* stop: the compare-exchange, which may fail though the state is the
\* expected one
stop_compare_exchange_weak(spurious) ==
  /\ stopCall.pc = "compare_exchange_weak"
  /\ IF m_state = "MINING_IN_PROGRESS" /\ ~spurious
     THEN m_state' = "MINING_STOPPED" /\ stopCall' = [stopCall EXCEPT !.pc = "wait"]
     ELSE UNCHANGED m_state /\ stopCall' = [stopCall EXCEPT !.pc = "returned"]
  /\ UNCHANGED << m_block, m_miningStopped, m_workers, mineCall, found, blockchain >>

\* stop: m_miningStopped.wait(), m_miningStopped.clear(), return
stop_wait ==
  /\ stopCall.pc = "wait"
  /\ m_miningStopped
  /\ m_miningStopped' = FALSE
  /\ stopCall' = [stopCall EXCEPT !.pc = "returned"]
  /\ UNCHANGED << m_state, m_block, m_workers, mineCall, found, blockchain >>

MinerNext ==
  \/ \E majorVersion \in {4, 5} : \E nonce \in 0..(NonceSpace - 1) :
       \E difficulty \in {1, 2, 4, HashSpace} : \E threadCount \in 0..MinerThreads :
         mine(majorVersion, nonce, difficulty, threadCount)
  \/ \E w \in Workers : workerFunc_while(w)
  \/ \E w \in Workers : \E failed \in BOOLEAN : workerFunc_hash(w, failed)
  \/ \E w \in Workers : workerFunc_setStateBlockFound(w)
  \/ \E w \in Workers : workerFunc_m_block(w)
  \/ mine_return
  \/ stop
  \/ \E spurious \in BOOLEAN : stop_compare_exchange_weak(spurious)
  \/ stop_wait

MinerSpec == LockInit /\ [][MinerNext]_vars

----------------------------------------------------------------------------
(* The templates of the core miner (src/src/CryptoNoteCore/Miner.cpp).     *)
(* set_block_template runs under m_template_lock and is one step; a worker *)
(* reads m_template_no outside the lock, copies the template and the       *)
(* difficulty under the lock (one step), and reads m_template_no again     *)
(* after it has released the lock.                                         *)

\* set_block_template is called while m_template_no is below this
MaxTemplates == 3

\* miner::set_block_template(bl, di); merged is what get_aux_block_header_hash
\* and appendMergeMiningTagToExtra answer for a block of version 2 or 3
set_block_template(bl, di, merged) ==
  /\ m_template_no < MaxTemplates
  /\ m_template' = bl
  /\ IF bl.majorVersion \in {2, 3} /\ ~merged
     THEN UNCHANGED << m_diffic, m_template_no, installed >>
     ELSE /\ m_diffic' = di
          /\ m_template_no' = m_template_no + 1
          /\ installed' = Put(installed, m_template_no + 1, [bl |-> bl, di |-> di])
  /\ UNCHANGED << workerLocal, node, miner, detector >>

\* worker_thread: local_template_ver != m_template_no
worker_thread_while(t) ==
  /\ workerLocal[t].pc = "while"
  /\ workerLocal[t].local_template_ver /= m_template_no
  /\ workerLocal' = [workerLocal EXCEPT ![t].pc = "m_template_lock"]
  /\ UNCHANGED << m_template, m_diffic, m_template_no, installed, node, miner, detector >>

\* worker_thread: b = m_template and local_diff = m_diffic under m_template_lock
worker_thread_copy(t) ==
  /\ workerLocal[t].pc = "m_template_lock"
  /\ workerLocal' = [workerLocal EXCEPT ![t].pc = "local_template_ver",
                                        ![t].b = m_template,
                                        ![t].local_diff = m_diffic]
  /\ UNCHANGED << m_template, m_diffic, m_template_no, installed, node, miner, detector >>

\* worker_thread: local_template_ver = m_template_no, after the unlock
worker_thread_version(t) ==
  /\ workerLocal[t].pc = "local_template_ver"
  /\ workerLocal' = [workerLocal EXCEPT ![t].pc = IF m_template_no = 0 THEN "while" ELSE "hash",
                                        ![t].local_template_ver = m_template_no]
  /\ UNCHANGED << m_template, m_diffic, m_template_no, installed, node, miner, detector >>

\* worker_thread: the versions are equal and not 0, or the copy has been
\* made; the worker hashes b against local_diff and starts over
worker_thread_hash(t) ==
  /\ \/ workerLocal[t].pc = "hash"
     \/ /\ workerLocal[t].pc = "while"
        /\ workerLocal[t].local_template_ver = m_template_no /\ m_template_no /= 0
  /\ workerLocal' = [workerLocal EXCEPT ![t].pc = IF @ = "hash" THEN "while" ELSE "hash"]
  /\ UNCHANGED << m_template, m_diffic, m_template_no, installed, node, miner, detector >>

TemplateNext ==
  \/ \E majorVersion \in {2, 5} : \E di \in 1..2 : \E merged \in BOOLEAN :
       set_block_template([majorVersion |-> majorVersion, id |-> majorVersion], di, merged)
  \/ \E t \in Workers : worker_thread_while(t)
  \/ \E t \in Workers : worker_thread_copy(t)
  \/ \E t \in Workers : worker_thread_version(t)
  \/ \E t \in Workers : worker_thread_hash(t)

TemplateSpec == LockInit /\ [][TemplateNext]_vars

----------------------------------------------------------------------------
(* BasicUpgradeDetector (src/src/CryptoNoteCore/UpgradeDetector.h) for a   *)
(* target version without a hard-coded upgrade height. m_blockchain[h + 1] *)
(* is the block at height h of the chain the detector watches; the chain   *)
(* gives a new block the major version its height has under the upgrade    *)
(* height of the detector, the vote in minorVersion is the miner's.        *)

\* BasicUpgradeDetector::getNumberOfVotes, over the tip the detector holds
getNumberOfVotes(tip_b, height) ==
  IF height < upgradeVotingWindow - 1 THEN 0
  ELSE upgradeVotingWindow
         * (IF tip_b.majorVersion = m_targetVersion - 1
               /\ tip_b.minorVersion = BLOCK_MINOR_VERSION_1 THEN 1 ELSE 0)

\* BasicUpgradeDetector::isVotingComplete
isVotingComplete(tip_b, height) ==
  upgradeVotingThreshold * upgradeVotingWindow <= 100 * getNumberOfVotes(tip_b, height)

\* BasicUpgradeDetector::findVotingCompleteHeight
findVotingCompleteHeight(tip_b, probableUpgradeHeight) ==
  LET probableVotingCompleteHeight ==
        IF probableUpgradeHeight > maxUpgradeDistance
        THEN probableUpgradeHeight - maxUpgradeDistance ELSE 0
      complete == { i \in probableVotingCompleteHeight..probableUpgradeHeight :
                      isVotingComplete(tip_b, i) }
  IN IF complete = {} THEN UNDEF_HEIGHT ELSE Min(complete)

\* BasicUpgradeDetector::upgradeHeight, Currency::calculateUpgradeHeight
detectorUpgradeHeight(votingCompleteHeight) ==
  IF votingCompleteHeight = UNDEF_HEIGHT THEN UNDEF_HEIGHT
  ELSE votingCompleteHeight + maxUpgradeDistance

\* the walk of init from the tip to the nearest earlier block of the target
\* version: its height, or UNDEF_HEIGHT when the store has no further block
RECURSIVE previousOfTargetVersion(_, _)
previousOfTargetVersion(blocks, height) ==
  IF height = 0 THEN UNDEF_HEIGHT
  ELSE IF blocks[height].majorVersion < m_targetVersion
  THEN previousOfTargetVersion(blocks, height - 1)
  ELSE height - 1

\* BasicUpgradeDetector::init on the chain as it is
detectorInit ==
  LET tip_height == Len(m_blockchain) - 1
      tip_b == m_blockchain[Len(m_blockchain)]
      walked == previousOfTargetVersion(m_blockchain, tip_height)
  IN
  /\ m_tip_height' = tip_height
  /\ m_tip_b' = tip_b
  /\ IF tip_height = 0
     THEN m_votingCompleteHeight' = UNDEF_HEIGHT /\ upgradeInit' = "true"
     ELSE IF m_targetVersion - 1 = tip_b.majorVersion
     THEN /\ m_votingCompleteHeight' = findVotingCompleteHeight(tip_b, tip_height)
          /\ upgradeInit' = "true"
     ELSE IF m_targetVersion <= tip_b.majorVersion
     THEN IF walked = UNDEF_HEIGHT
          THEN UNCHANGED m_votingCompleteHeight /\ upgradeInit' = "false"
          ELSE /\ m_votingCompleteHeight' = findVotingCompleteHeight(tip_b, walked)
               /\ upgradeInit' = IF findVotingCompleteHeight(tip_b, walked) = UNDEF_HEIGHT
                                 THEN "false" ELSE "true"
     ELSE m_votingCompleteHeight' = UNDEF_HEIGHT /\ upgradeInit' = "true"
  /\ UNCHANGED << m_blockchain, node, miner, templates >>

\* a block with the vote minorVersion is pushed and the chain calls
\* BasicUpgradeDetector::blockPushed
blockPushed(minorVersion) ==
  LET height == Len(m_blockchain)
      b == [ majorVersion |->
               IF height > detectorUpgradeHeight(m_votingCompleteHeight)
               THEN m_targetVersion ELSE m_targetVersion - 1,
             minorVersion |-> minorVersion ]
  IN
  /\ Len(m_blockchain) < MaxChain
  /\ m_blockchain' = Append(m_blockchain, b)
  /\ m_tip_height' = height
  /\ m_tip_b' = b
  /\ m_votingCompleteHeight' =
       IF m_votingCompleteHeight = UNDEF_HEIGHT /\ isVotingComplete(b, height)
       THEN height ELSE m_votingCompleteHeight
  /\ UNCHANGED << upgradeInit, node, miner, templates >>

\* the tip is popped and the chain calls BasicUpgradeDetector::blockPopped
blockPopped ==
  /\ Len(m_blockchain) > 1
  /\ m_blockchain' = SubSeq(m_blockchain, 1, Len(m_blockchain) - 1)
  /\ IF m_votingCompleteHeight /= UNDEF_HEIGHT
     THEN /\ m_tip_height' = Len(m_blockchain) - 2
          /\ m_tip_b' = m_blockchain[Len(m_blockchain) - 1]
          /\ m_votingCompleteHeight' =
               IF Len(m_blockchain) - 2 = m_votingCompleteHeight THEN UNDEF_HEIGHT
               ELSE m_votingCompleteHeight
     ELSE UNCHANGED << m_tip_height, m_tip_b, m_votingCompleteHeight >>
  /\ UNCHANGED << upgradeInit, node, miner, templates >>

UpgradeNext ==
  \/ \E minorVersion \in {0, BLOCK_MINOR_VERSION_1} : blockPushed(minorVersion)
  \/ blockPopped
  \/ detectorInit

UpgradeSpec == LockInit /\ [][UpgradeNext]_vars

----------------------------------------------------------------------------
(* Queries of the chain.                                                   *)

\* Blockchain::findSupplement: the height of the first id that has a block
\* record; ids ends with the genesis hash, so there is one
findSupplement(s, ids) ==
  s.B[ids[Min({ i \in 1..Len(ids) : Has(s.B, ids[i]) })]].height

\* the loop of Blockchain::getBlockIds over the keys hs of b/ from
\* startHeight on: the hash is pushed, then count is compared with maxCount
RECURSIVE getBlockIdsFrom(_, _, _, _, _)
getBlockIdsFrom(s, hs, count, maxCount, ids) ==
  IF hs = {} THEN ids
  ELSE IF count > maxCount THEN Append(ids, s.b[Min(hs)])
  ELSE getBlockIdsFrom(s, hs \ {Min(hs)}, count + 1, maxCount, Append(ids, s.b[Min(hs)]))

\* Blockchain::findBlockchainSupplement(remoteBlockIds, maxCount,
\* totalBlockCount, startBlockIndex)
findBlockchainSupplement(s, remoteBlockIds, maxCount) ==
  [ totalBlockCount |-> s.height,
    startBlockIndex |-> findSupplement(s, remoteBlockIds),
    ids |-> getBlockIdsFrom(s, { h \in DOMAIN s.b : h >= findSupplement(s, remoteBlockIds) },
                            0, maxCount, <<>>) ]

\* the ids a peer sends: some offered blocks, then the genesis hash
RemoteBlockIds ==
  { <<GenesisHash>> } \cup { <<x, GenesisHash>> : x \in feed }
  \cup { <<x, y, GenesisHash>> : x \in feed, y \in feed }


\* what a query that throws std::runtime_error gives back
SparseChainThrown == [exc |-> TRUE, result |-> <<>>]

\* the loop of build_sparse_chain: b/<sparseChainEnd - i> for i = 1, 2, 4, ..
RECURSIVE sparseChainFrom(_, _, _, _)
sparseChainFrom(s, sparseChainEnd, i, result) ==
  IF i > sparseChainEnd THEN [exc |-> FALSE, result |-> result]
  ELSE IF ~Has(s.b, sparseChainEnd - i) THEN SparseChainThrown
  ELSE sparseChainFrom(s, sparseChainEnd, i * 2, Append(result, s.b[sparseChainEnd - i]))

\* Blockchain::build_sparse_chain: getBlockHeight reads B/<hash>/b
build_sparse_chain(s, startBlockId) ==
  LET ended(r) ==
        IF r.exc \/ r.result[Len(r.result)] = s.b[0] THEN r
        ELSE [r EXCEPT !.result = Append(@, s.b[0])]
  IN
  IF ~Has(s.B, startBlockId) THEN SparseChainThrown
  ELSE ended(sparseChainFrom(s, s.B[startBlockId].height + 1, 1, <<>>))

\* the walk of doBuildSparseChain through m_alternative_chains, newest first
RECURSIVE alternativeChain(_, _)
alternativeChain(alt, id) ==
  IF ~Has(alt, id) THEN <<>> ELSE <<id>> \o alternativeChain(alt, Block[id].prev)

\* the entries 1, 2, 4, .. of alternativeChain
RECURSIVE sparseAlternativeFrom(_, _)
sparseAlternativeFrom(chain_, i) ==
  IF i > Len(chain_) THEN <<>>
  ELSE <<chain_[i]>> \o sparseAlternativeFrom(chain_, i * 2)

\* Blockchain::doBuildSparseChain
doBuildSparseChain(s, startBlockId) ==
  LET joined(sparseChain, sparseMainChain) ==
        IF sparseMainChain.exc THEN sparseMainChain
        ELSE [exc |-> FALSE, result |-> sparseChain \o sparseMainChain.result]
      blockchainAncestor(ids) == Block[ids[Len(ids)]].prev
  IN
  IF haveBlock(s, startBlockId) THEN build_sparse_chain(s, startBlockId)
  ELSE joined(sparseAlternativeFrom(alternativeChain(s.alt, startBlockId), 1),
              build_sparse_chain(s,
                blockchainAncestor(alternativeChain(s.alt, startBlockId))))


\* Currency::lockedTxAllowedDeltaBlocks and the UPGRADE_HEIGHT_V5 of
\* CryptoNoteConfig
lockedTxAllowedDeltaBlocks == 1
UPGRADE_HEIGHT_V5 == upgradeHeight(5)

\* unlockTime of the transaction a hash names: a coinbase carries the one of
\* its block, the transactions of the table carry none
unlockTime(h) == IF h \in TxHashes THEN 0 ELSE Block[h - 100].unlock

\* Blockchain::is_tx_spendtime_unlocked, for an unlock time that is a block index
is_tx_spendtime_unlocked(s, unlock_time) ==
  s.height - 1 + lockedTxAllowedDeltaBlocks >= unlock_time

\* Blockchain::find_end_of_allowed_index; amount_outs[i + 1] is the entry i
find_end_of_allowed_index(s, amount_outs) ==
  Max({0} \cup
      { i \in 1..Len(amount_outs) :
          amount_outs[i].block
            + (IF amount_outs[i].block < UPGRADE_HEIGHT_V5 THEN minedMoneyUnlockWindow
               ELSE minedMoneyUnlockWindow_v1) <= s.height })

\* Blockchain::add_out_to_get_random_outs: the outcomes of the call for the
\* entry i. transactionByIndex reads e.transactions[index.transaction] of the
\* block at the height of the entry; an entry that names no transaction of
\* that block makes the read undefined.
add_out_to_get_random_outs(s, amount_outs, i) ==
  LET e == amount_outs[i + 1] IN
  IF ~Has(s.b, e.block) \/ ~Has(s.B, s.b[e.block])
     \/ e.transaction >= Len(s.B[s.b[e.block]].transactions)
  THEN {"added", "skipped", "crashed"}
  ELSE IF ~(Len(TxOf(s.B[s.b[e.block]].transactions[e.transaction + 1].tx).outs) > e.out)
  THEN {"skipped"}
  ELSE IF TxOf(s.B[s.b[e.block]].transactions[e.transaction + 1].tx).outs[e.out + 1].kind
            /= "key"
  THEN {"skipped"}
  ELSE IF ~is_tx_spendtime_unlocked(s,
             unlockTime(s.B[s.b[e.block]].transactions[e.transaction + 1].tx))
  THEN {"skipped"}
  ELSE {"added"}

\* the sampling loop of getRandomOutsByAmount: every i below up_index_limit
\* can be drawn; a draw of a used i changes nothing, try_count is the size of
\* used and j the number of outs
RECURSIVE randomOuts(_, _, _, _, _, _)
randomOuts(s, amount_outs, up_index_limit, outs_count, used, outs) ==
  IF Len(outs) = outs_count \/ ~(Cardinality(used) < up_index_limit)
  THEN { [crashed |-> FALSE, outs |-> outs] }
  ELSE UNION { UNION {
         IF added = "crashed" THEN { [crashed |-> TRUE, outs |-> outs] }
         ELSE randomOuts(s, amount_outs, up_index_limit, outs_count, used \cup {i},
                         IF added = "added" THEN Append(outs, i) ELSE outs)
         : added \in add_out_to_get_random_outs(s, amount_outs, i) }
       : i \in (0..(up_index_limit - 1)) \ used }

\* the loop over every i below up_index_limit
RECURSIVE allOuts(_, _, _, _, _)
allOuts(s, amount_outs, up_index_limit, i, outs) ==
  IF i = up_index_limit THEN { [crashed |-> FALSE, outs |-> outs] }
  ELSE UNION {
         IF added = "crashed" THEN { [crashed |-> TRUE, outs |-> outs] }
         ELSE allOuts(s, amount_outs, up_index_limit, i + 1,
                      IF added = "added" THEN Append(outs, i) ELSE outs)
         : added \in add_out_to_get_random_outs(s, amount_outs, i) }

\* Blockchain::getRandomOutsByAmount for one amount: the results the call can
\* give, each the global_amount_index of its outs in the order they were added
getRandomOutsByAmount(s, amount, outs_count) ==
  IF ~Has(s.o, amount) THEN { [crashed |-> FALSE, outs |-> <<>>] }
  ELSE IF Len(s.o[amount]) > outs_count
  THEN randomOuts(s, s.o[amount], find_end_of_allowed_index(s, s.o[amount]), outs_count,
                  {}, <<>>)
  ELSE allOuts(s, s.o[amount], find_end_of_allowed_index(s, s.o[amount]), 0, <<>>)

----------------------------------------------------------------------------
(* Properties                                                              *)

\* C1: addNewBlock of a block whose hash is already on the main chain or in
\* the alternative-chain map returns false with m_already_exists set and
\* changes neither the store, the cached height, the alternative-chain map,
\* the pool nor the queue.
C1_AlreadyExistsMutatesNothing ==
  [][ (last'.id /= 0
       /\ (last'.id \in DOMAIN db_B \/ last'.id \in DOMAIN m_alternative_chains))
      => /\ last'.result = "false"
         /\ last'.bvc.m_already_exists
         /\ UNCHANGED << db_b, db_B, db_t, db_k, db_o, db_m, db_p, db_T, db_g, m_height,
                         m_lastGeneratedTxNumber, m_alternative_chains, pool, queue >> ]_vars

\* a block of the alternative-chain map has been offered again
C1_Witness ==
  /\ last.result = "false" /\ last.bvc.m_already_exists
  /\ last.id \in DOMAIN m_alternative_chains
  /\ queue /= <<>>

\* C2: for every height h > 0 of the height index, the block recorded at h
\* has previousBlockHash equal to the hash recorded at h - 1.
C2_ChainLinked ==
  \A h \in DOMAIN db_b :
    h > 0 => /\ (h - 1) \in DOMAIN db_b
             /\ db_b[h] \in DOMAIN db_B
             /\ Block[db_B[db_b[h]].bl].prev = db_b[h - 1]

\* C3: the heights of the height index are 0..H without gaps and every hash
\* stored there has a block record.
C3_ContiguousHeightsWithRecords ==
  /\ DOMAIN db_b = 0..(Cardinality(DOMAIN db_b) - 1)
  /\ \A h \in DOMAIN db_b : db_b[h] \in DOMAIN db_B
  /\ \A id \in DOMAIN db_B : \E h \in DOMAIN db_b : db_b[h] = id

\* C4: no key image is carried by the KeyInputs of two transactions confirmed
\* on the main chain.
C4_KeyImageSpentOnce ==
  \A h1, h2 \in DOMAIN db_b :
    (db_b[h1] \in DOMAIN db_B /\ db_b[h2] \in DOMAIN db_B) =>
      \A i \in 1..Len(db_B[db_b[h1]].transactions) :
        \A j \in 1..Len(db_B[db_b[h2]].transactions) :
          (SeqToSet(TxOf(db_B[db_b[h1]].transactions[i].tx).kis)
             \cap SeqToSet(TxOf(db_B[db_b[h2]].transactions[j].tx).kis) /= {})
          => (h1 = h2 /\ i = j)

\* C5: addNewBlock of a block that extends the tip and carries a transaction
\* with a key image already recorded as spent returns false with
\* m_verification_failed set and does not append the block.
C5_DoubleSpendRejected ==
  [][ (last'.id /= 0
       /\ ~haveBlock(Cur, last'.id)
       /\ Block[last'.id].prev = getTailId(Cur)
       /\ \E i \in 1..Len(Block[last'.id].txs) :
            \E n \in 1..Len(Tx[Block[last'.id].txs[i]].kis) :
              checkIfSpent(Cur, Tx[Block[last'.id].txs[i]].kis[n]))
      => /\ last'.result = "false"
         /\ last'.bvc.m_verification_failed
         /\ db_b' = db_b /\ db_B' = db_B ]_vars

\* C6: pushing a block and popping it straight away restores every key of
\* the store, the cached height and the generated-transaction counter.
C6_PushPopRestores ==
  (initialized /\ ~thrown) =>
    \A id \in feed :
      LET r == pushBlock(Cur, id, BvcInit, "skip") IN
      (r.ok /\ ~r.s.exc) =>
        LET q == popBlock(r.s) IN
        /\ ~q.exc
        /\ q.b = db_b /\ q.B = db_B /\ q.t = db_t /\ q.k = db_k /\ q.o = db_o
        /\ q.m = db_m /\ q.p = db_p /\ q.T = db_T /\ q.g = db_g
        /\ q.height = m_height /\ q.lastGen = m_lastGeneratedTxNumber

C9_NoReorgWithoutMoreWork ==
  [][ (last'.id /= 0 /\ last'.dec.reached /\ ~last'.dec.is_a_checkpoint
       /\ last'.dec.bei_cumulative_difficulty <= last'.tip_cumulative_difficulty)
      => /\ ~last'.dec.entered
         /\ last'.result = "true"
         /\ db_b' = db_b /\ db_B' = db_B
         /\ last'.id \in DOMAIN m_alternative_chains' ]_vars

\* C10: an alternative block that matches a checkpoint makes the main chain
\* switch to its chain, and addNewBlock reports the switch.
C10_CheckpointForcesSwitch ==
  (last.dec.reached /\ last.dec.is_a_checkpoint)
  => /\ last.result = "true"
     /\ last.bvc.m_added_to_main_chain /\ last.bvc.m_switched_to_alt_chain
     /\ getTailId(Cur) = last.id

C12_FailedPushLeavesIndexes ==
  [][ (/\ last'.id /= 0
       /\ last'.id \notin DOMAIN db_B /\ last'.id \notin DOMAIN m_alternative_chains
       /\ Block[last'.id].prev = getTailId(Cur)
       /\ last'.result = "false")
      => UNCHANGED << db_t, db_k, db_o, db_m, db_p, db_b, db_B, db_T, db_g >> ]_vars

\* C13: no two threads wait for each other on the pool lock and the chain
\* lock, and no thread is about to take the pool lock while it holds the
\* chain lock without holding the pool lock.
C13_PoolLockBeforeChainLock ==
  /\ ~ \E t, u \in Threads :
         /\ thread[t].pc = "addNewBlock_poolLock" /\ poolLock = u
         /\ thread[u].pc = "addNewBlock_bcLock" /\ m_blockchain_lock.owner = t
  /\ \A t \in Threads :
       (thread[t].pc = "addNewBlock_poolLock" /\ m_blockchain_lock.owner = t) => poolLock = t

\* C14: whenever addNewBlock has returned false, m_already_exists or
\* m_verification_failed is set in the verification context.
C14_FalseResultCarriesFlag ==
  last.result = "false" => (last.bvc.m_already_exists \/ last.bvc.m_verification_failed)

\* C15: addNewBlock of a new block whose previous block is neither on the
\* main chain nor in the alternative-chain map, and which passes the checks
\* of its height, its version and its size, reports the block as orphaned;
\* the block is added to neither chain and the store, the cached height, the
\* alternative-chain map and the message queue stay as they were.
C15_OrphanChangesNothing ==
  [][ (/\ last'.id /= 0
       /\ last'.id \notin DOMAIN db_B /\ last'.id \notin DOMAIN m_alternative_chains
       /\ \A h \in DOMAIN db_b : db_b[h] /= Block[last'.id].prev
       /\ Block[last'.id].prev \notin DOMAIN m_alternative_chains
       /\ Block[last'.id].hgt /= 0
       /\ is_alternative_block_allowed(m_points', m_height, Block[last'.id].hgt)
       /\ checkBlockVersion(Block[last'.id])
       /\ checkCumulativeBlockSize(getBlockCumulativeSize(Cur, Block[last'.id]),
                                   Block[last'.id].hgt))
      => /\ last'.result = "true"
         /\ last'.bvc.m_marked_as_orphaned
         /\ ~last'.bvc.m_added_to_main_chain /\ ~last'.bvc.m_switched_to_alt_chain
         /\ UNCHANGED << db_b, db_B, db_t, db_k, db_o, db_m, db_p, db_T, db_g, m_height,
                         m_lastGeneratedTxNumber, m_alternative_chains, pool, queue >> ]_vars

\* an orphaned block has been offered and reported
C15_Witness ==
  /\ last.id /= 0 /\ last.result = "true" /\ last.bvc.m_marked_as_orphaned
  /\ \A h \in DOMAIN db_b : db_b[h] /= Block[last.id].prev
  /\ Block[last.id].prev \notin DOMAIN m_alternative_chains

\* C16: for every height h up to the tip, the block entry of the main chain
\* at h has the height field h and its coinbase input has blockIndex h.
C16_HeightFieldsMatchPosition ==
  (initialized /\ ~thrown) =>
    \A h \in DOMAIN db_b :
      Has(db_B, db_b[h]) => (db_B[db_b[h]].height = h /\ Block[db_b[h]].hgt = h)

\* C17: the block of the main chain at height h has the major version
\* getBlockMajorVersionForHeight(h).
C17_VersionMatchesPosition ==
  (initialized /\ ~thrown) =>
    \A h \in DOMAIN db_b : Block[db_b[h]].ver = getBlockMajorVersionForHeight(h)

C19_SpentIffOnMainChain ==
  (initialized /\ ~thrown) =>
    \A k \in 1..3 :
      checkIfSpent(Cur, k) <=>
        \E h \in DOMAIN db_b : \E i \in 1..Len(Block[db_b[h]].txs) :
          \E n \in 1..Len(Tx[Block[db_b[h]].txs[i]].kis) :
            Tx[Block[db_b[h]].txs[i]].kis[n] = k

\* C20: init on a store whose block at height 0 is not the genesis block of
\* the currency returns failure (the Blockchain stays uninitialized, no
\* exception) and changes no key of the store, the $version key included.
C20_ForeignStoreRefused ==
  [][ (~initialized /\ ~thrown /\ Has(db_b, 0) /\ db_b[0] /= GenesisHash)
      => /\ ~initialized' /\ ~thrown'
         /\ UNCHANGED << db_b, db_B, db_t, db_k, db_o, db_m, db_p, db_T, db_g, db_version >>
    ]_vars

\* init has run on the store of another network: the height was read from it
C20_Witness ==
  /\ ~initialized /\ Has(db_b, 0) /\ db_b[0] = ForeignGenesisHash
  /\ db_version = version_current /\ m_height = 1

C22_FailedPushRestoresPool ==
  [][ (/\ last'.id /= 0
       /\ last'.id \notin DOMAIN db_B /\ last'.id \notin DOMAIN m_alternative_chains
       /\ Block[last'.id].prev = getTailId(Cur)
       /\ last'.result = "false")
      => pool' = pool ]_vars

\* a push has failed on a block some of whose transactions were in the pool:
\* one after a transaction was missing, one after a later check
C22_Witness ==
  /\ last.result = "false" /\ last.bvc.m_verification_failed
  /\ Block[last.id].prev = getTailId(Cur)
  /\ \E i \in 1..Len(Block[last.id].txs) : Block[last.id].txs[i] \in pool

\* C23: the tip heights the observer reads in successive blockchainUpdated
\* callbacks are strictly increasing, except that a callback of a call that
\* reorganized the chain may read a lower height.
C23_ObservedHeightsIncrease ==
  \A i \in 1..(Len(observed) - 1) :
    observed[i].height < observed[i + 1].height \/ observed[i + 1].reorganized

\* C24: an addNewBlock that has pushed a block onto the tip has committed
\* the store when the node is marked synchronized; when it is not, it has
\* committed only if the height of the block is a multiple of 1000 and not 0.
C24_CommitCadence ==
  (last.result = "true" /\ last.bvc.m_added_to_main_chain) =>
    IF m_synchronized THEN last.commits >= 1
    ELSE last.commits >= 1 => ((m_height - 1) % 1000 = 0 /\ m_height - 1 /= 0)


\* C25: in one Miner::mine call at most one worker moves the state from
\* MINING_IN_PROGRESS to BLOCK_FOUND, only that worker writes m_block, and a
\* block that mine returns is the block of that worker, with a hash that
\* meets the requested difficulty
C25_OneWorkerSubmits ==
  /\ Cardinality(found.won) <= 1
  /\ \A wr \in found.wrote : wr.worker \in found.won
  /\ mineCall.pc = "returned" =>
       \E w \in Workers :
         /\ found.won = {w}
         /\ found.wrote = {[worker |-> w, block |-> mineCall.result]}
         /\ check_hash(workerHash(mineCall.result, mineCall.result), mineCall.difficulty)

\* mine has returned the block of the worker that won against another
\* worker whose hash met the difficulty as well
C25_Witness ==
  /\ mineCall.pc = "returned"
  /\ found.won /= {} /\ found.lost /= {}
  /\ mineCall.result.majorVersion = 4


\* C26: when stop was called while mining was in progress, it returns only
\* after every worker has left workerFunc, and at its return the state is
\* not MINING_IN_PROGRESS
C26_StopReturnsAfterWorkers ==
  [][ (stopCall.pc /= "returned" /\ stopCall'.pc = "returned" /\ stopCall'.inProgress)
      => /\ \A w \in Workers : m_workers'[w].pc \in {"none", "done"}
         /\ m_state' /= "MINING_IN_PROGRESS" ]_vars


C28_OutputListsMatchMainChain ==
  LET entryAt(h) == db_B[db_b[h]]
      txOf(h, n) == TxOf(entryAt(h).transactions[n + 1].tx)
      onChain(e) == /\ e.block \in DOMAIN db_b /\ db_b[e.block] \in DOMAIN db_B
                    /\ e.transaction < Len(entryAt(e.block).transactions)
                    /\ e.out < Len(txOf(e.block, e.transaction).outs)
      before(e, f) == \/ e.block < f.block
                      \/ e.block = f.block /\ e.transaction < f.transaction
                      \/ e.block = f.block /\ e.transaction = f.transaction /\ e.out < f.out
  IN
  ~thrown =>
    /\ \A a \in DOMAIN db_o : db_o[a] /= <<>>
    /\ \A a \in DOMAIN db_m : db_m[a] /= <<>>
    /\ \A a \in DOMAIN db_o : \A i \in 1..Len(db_o[a]) :
         LET e == db_o[a][i] IN
         /\ onChain(e)
         /\ txOf(e.block, e.transaction).outs[e.out + 1] = KeyOut(a)
         /\ entryAt(e.block).transactions[e.transaction + 1].m_global_output_indexes[e.out + 1]
              = i - 1
         /\ i > 1 => before(db_o[a][i - 1], e)
    /\ \A h \in DOMAIN db_b : db_b[h] \in DOMAIN db_B =>
         \A n \in 0..(Len(entryAt(h).transactions) - 1) :
           \A k \in 1..Len(txOf(h, n).outs) :
             txOf(h, n).outs[k].kind = "key" =>
               /\ txOf(h, n).outs[k].amount \in DOMAIN db_o
               /\ \E i \in 1..Len(db_o[txOf(h, n).outs[k].amount]) :
                    db_o[txOf(h, n).outs[k].amount][i]
                      = [block |-> h, transaction |-> n, out |-> k - 1]


\* C29: between calls and with no checkpoint loaded, the multisignature
\* output at position i of m/<amount> has isUsed set exactly when a transaction of a main-chain
\* block has a MultisignatureInput that names (amount, i).
C29_UsedFlagMatchesMainChain ==
  LET spends(h, a, i) ==
        \E n \in 1..Len(db_B[db_b[h]].transactions) :
          \E k \in 1..Len(TxOf(db_B[db_b[h]].transactions[n].tx).msin) :
            TxOf(db_B[db_b[h]].transactions[n].tx).msin[k] = [amount |-> a, outputIndex |-> i]
  IN
  (~thrown /\ DOMAIN m_points = {}) =>
    \A a \in DOMAIN db_m : \A i \in 1..Len(db_m[a]) :
      db_m[a][i].isUsed <=>
        \E h \in DOMAIN db_b : db_b[h] \in DOMAIN db_B /\ spends(h, a, i - 1)


C31_WorkerHoldsCurrentTemplate ==
  \A t \in Workers :
    (workerLocal[t].local_template_ver = m_template_no /\ m_template_no /= 0)
    => /\ workerLocal[t].b = installed[m_template_no].bl
       /\ workerLocal[t].local_diff = installed[m_template_no].di


\* C32: between calls the cached height is the number of entries of the
\* height index, and removeLastBlock on a chain that is not empty returns
\* with the cached height one less and again equal to that number.
C32_CachedHeightMatchesIndex ==
  (initialized /\ ~thrown) =>
    /\ m_height = Cardinality(DOMAIN db_b)
    /\ ~ChainEmpty(Cur) =>
         /\ ~removeLastBlock(Cur).exc
         /\ removeLastBlock(Cur).height = m_height - 1
         /\ removeLastBlock(Cur).height = Cardinality(DOMAIN removeLastBlock(Cur).b)


\* C33: when init finds the checkpoint of height h matched and the
\* checkpoint of height h + 1 contradicted by the stored chain, its
\* rollbackBlockchainTo(h) returns, and the height index then ends at h.
C33_RollbackReachesCheckpoint ==
  (initialized /\ ~thrown) =>
    \A h \in 0..(m_height - 2) :
      /\ ~initCheckpointed([Cur EXCEPT
                              !.points = Put(Put(EmptyMap, h, db_b[h]), h + 1, NULL_HASH)]).exc
      /\ DOMAIN initCheckpointed([Cur EXCEPT
                              !.points = Put(Put(EmptyMap, h, db_b[h]), h + 1, NULL_HASH)]).b
           = 0..h


\* C34: findBlockchainSupplement answers the main-chain height of the first
\* remote id that is on the main chain, the chain height as total, and the
\* main-chain hashes from that height on, at most maxCount of them.
C34_SupplementFromFirstCommonBlock ==
  (initialized /\ ~thrown) =>
    \A remoteBlockIds \in RemoteBlockIds : \A maxCount \in 1..2 :
      LET first == Min({ i \in 1..Len(remoteBlockIds) :
                           \E h \in DOMAIN db_b : db_b[h] = remoteBlockIds[i] })
          start == CHOOSE h \in DOMAIN db_b : db_b[h] = remoteBlockIds[first]
          r == findBlockchainSupplement(Cur, remoteBlockIds, maxCount)
      IN /\ r.startBlockIndex = start
         /\ r.totalBlockCount = Cardinality(DOMAIN db_b)
         /\ Len(r.ids) <= maxCount
         /\ \A i \in 1..Len(r.ids) : r.ids[i] = db_b[start + i - 1]


\* C35: no block hash is both in the height index of the main chain and in
\* the alternative-chain map.
C35_MainAndAlternativeDisjoint ==
  \A h \in DOMAIN db_b : db_b[h] \notin DOMAIN m_alternative_chains

\* an alternative block is kept beside a main chain that has grown, and a
\* call has since refused a block that the chain or the map already holds
C35_Witness ==
  /\ ~thrown
  /\ DOMAIN m_alternative_chains /= {}
  /\ m_height >= 2
  /\ last.result = "false" /\ last.bvc.m_already_exists


\* C36: after every completed addNewBlock call no transaction is both in the
\* t/ index of the main chain and in the memory pool.
C36_PoolAndIndexDisjoint ==
  (initialized /\ ~thrown) => \A t \in pool : ~Has(db_t, t)


\* the k-th smallest of the timestamps at the heights hs of the main chain
kthSmallest(hs, k) ==
  CHOOSE x \in { Block[db_b[h]].ts : h \in hs } :
    /\ Cardinality({ h \in hs : Block[db_b[h]].ts < x }) < k
    /\ Cardinality({ h \in hs : Block[db_b[h]].ts <= x }) >= k

\* the median of the timestamps at the heights hs: the middle one, or the
\* floor of the mean of the two middle ones
medianOfWindow(hs) ==
  IF Cardinality(hs) % 2 = 1 THEN kthSmallest(hs, (Cardinality(hs) \div 2) + 1)
  ELSE (kthSmallest(hs, Cardinality(hs) \div 2)
          + kthSmallest(hs, (Cardinality(hs) \div 2) + 1)) \div 2

MaxTimestamp == 4

RECURSIVE sparseHeights(_, _)
sparseHeights(H, i) ==
  IF i > H + 1 THEN <<>> ELSE <<H + 1 - i>> \o sparseHeights(H, i * 2)

\* the main-chain hashes at sparseHeights(H, 1), then the genesis hash unless
\* it is there already
sparseMain(H) ==
  LET hs == sparseHeights(H, 1)
      ids == [i \in 1..Len(hs) |-> db_b[hs[i]]]
  IN IF hs[Len(hs)] = 0 THEN ids ELSE Append(ids, db_b[0])

\* C38 (main chain): the sparse chain of a main-chain block at height H is the
\* main-chain hashes at H, H - 1, H - 3, H - 7, .., ends with the genesis hash,
\* and has no duplicates.
C38_SparseChainOfMainBlock ==
  (initialized /\ ~thrown) =>
    \A H \in DOMAIN db_b :
      /\ ~doBuildSparseChain(Cur, db_b[H]).exc
      /\ doBuildSparseChain(Cur, db_b[H]).result = sparseMain(H)
      /\ LET r == sparseMain(H)
         IN /\ r[Len(r)] = db_b[0]
            /\ \A i, j \in 1..Len(r) : i /= j => r[i] /= r[j]

\* C38: as above for a main-chain block; for a block of the alternative-chain
\* map the sparse chain is its alternative ancestors 0, 1, 3, .. steps back
\* followed by the sparse chain of the main-chain block they descend from.
C38_SparseChainOfAncestors ==
  /\ C38_SparseChainOfMainBlock
  /\ (initialized /\ ~thrown) =>
       \A id \in DOMAIN m_alternative_chains :
         \A H \in DOMAIN db_b :
           db_b[H] = Block[altChainFrom(m_alternative_chains, id)[1]].prev =>
             /\ ~doBuildSparseChain(Cur, id).exc
             /\ doBuildSparseChain(Cur, id).result
                  = sparseAlternativeFrom(alternativeChain(m_alternative_chains, id), 1)
                      \o sparseMain(H)


MaxOutsCount == 3

\* the number of entries of o/<amount> up to the newest one whose block is
\* old enough for its outputs to be mixed in
unlockedPrefix(amount) ==
  Max({0} \cup { i \in 1..Len(db_o[amount]) :
                   db_o[amount][i].block
                     + (IF db_o[amount][i].block < UPGRADE_HEIGHT_V5
                        THEN minedMoneyUnlockWindow ELSE minedMoneyUnlockWindow_v1)
                     <= m_height })

\* C39: for every amount and ring size k, getRandomOutsByAmount returns
\* pairwise distinct global indices of the unlocked prefix of o/<amount>, at
\* most k of them when the prefix has more than k entries and every entry of
\* the prefix otherwise.
C39_RandomOutsFromUnlockedPrefix ==
  (initialized /\ ~thrown) =>
    \A amount \in DOMAIN db_o : \A k \in 1..MaxOutsCount :
      \A r \in getRandomOutsByAmount(Cur, amount, k) :
        /\ ~r.crashed
        /\ \A i, j \in 1..Len(r.outs) : i /= j => r.outs[i] /= r.outs[j]
        /\ \A i \in 1..Len(r.outs) : r.outs[i] < unlockedPrefix(amount)
        /\ IF unlockedPrefix(amount) > k THEN Len(r.outs) <= k
           ELSE SeqToSet(r.outs) = 0..(unlockedPrefix(amount) - 1)


\* the blocks at the heights height + 1 - upgradeVotingWindow .. height that
\* vote for the target version
votesInWindow(blocks, height) ==
  Cardinality({ i \in (height + 1 - upgradeVotingWindow)..height :
                  /\ i >= 0
                  /\ blocks[i + 1].majorVersion = m_targetVersion - 1
                  /\ blocks[i + 1].minorVersion = BLOCK_MINOR_VERSION_1 })

\* C40 (upgrade height and cancellation): once the vote is complete the
\* upgrade height is the voting-complete height plus the maximum upgrade
\* distance, and a pop that brings the tip back to the voting-complete
\* height cancels the upgrade.
C40_UpgradeHeightAndCancel ==
  [][ /\ m_votingCompleteHeight' /= UNDEF_HEIGHT =>
           detectorUpgradeHeight(m_votingCompleteHeight')
             = m_votingCompleteHeight' + maxUpgradeDistance
      /\ ( /\ Len(m_blockchain') = Len(m_blockchain) - 1
           /\ m_votingCompleteHeight /= UNDEF_HEIGHT
           /\ Len(m_blockchain') - 1 = m_votingCompleteHeight )
           => m_votingCompleteHeight' = UNDEF_HEIGHT ]_vars

\* C40: a push at height h, the vote not yet complete, declares it complete
\* at h exactly when the blocks at heights h + 1 - window .. h that carry
\* major version V - 1 and minor version 1 number at least threshold * window
\* / 100; the upgrade height and the cancellation are as above.
C40_VotingCompleteByWindow ==
  [][ /\ ( /\ Len(m_blockchain') = Len(m_blockchain) + 1
           /\ m_votingCompleteHeight = UNDEF_HEIGHT )
           => /\ m_votingCompleteHeight' \in {UNDEF_HEIGHT, Len(m_blockchain)}
              /\ (m_votingCompleteHeight' = Len(m_blockchain))
                   <=> ( /\ Len(m_blockchain) >= upgradeVotingWindow - 1
                         /\ upgradeVotingThreshold * upgradeVotingWindow
                              <= 100 * votesInWindow(m_blockchain', Len(m_blockchain)) )
      /\ m_votingCompleteHeight' /= UNDEF_HEIGHT =>
           detectorUpgradeHeight(m_votingCompleteHeight')
             = m_votingCompleteHeight' + maxUpgradeDistance
      /\ ( /\ Len(m_blockchain') = Len(m_blockchain) - 1
           /\ m_votingCompleteHeight /= UNDEF_HEIGHT
           /\ Len(m_blockchain') - 1 = m_votingCompleteHeight )
           => m_votingCompleteHeight' = UNDEF_HEIGHT ]_vars

====
